---- MODULE Spec2Model ----
(***************************************************************************)
(* Entity-resolution and relationship-discovery pipeline of the            *)
(* entity-relationship-extractor: SmartEntityExtractor (span correction,   *)
(* deduplication, sort), WikidataClient (entity search, label lookup,      *)
(* claims filter, shortest-predicate selection) and                        *)
(* EnhancedRelationshipExtractor (pair enumeration, triplet assembly,      *)
(* in-degree annotation).                                                  *)
(*                                                                         *)
(* Strings are sequences of one-character strings, so that lower(),        *)
(* strip(), substring containment and the regular expression are computed  *)
(* character by character.  Offsets are Python offsets (0-based,           *)
(* half-open).                                                             *)
(***************************************************************************)
EXTENDS Integers, Sequences, FiniteSets, TLC

VARIABLES
    text,          \* the input text of the run (a character sequence)
    rawSpans,      \* doc.ents as returned by the NLP model for text
    entities,      \* the list extract_entities returned
    spanDicts,     \* the list extract_entities passed to _apply_smart_corrections
    pc,            \* position of the run
    kb,            \* the knowledge base, as far as the run has looked into it
    processed,     \* process_entities: processed_entities
    k,             \* process_entities: index of the next entity of the loop
    pi,            \* extract_relationships: i of the pair loop
    pj,            \* extract_relationships: j of the pair loop
    relsForward,   \* extract_relationships: rels_forward of the current pair
    relationships, \* extract_relationships: relationships
    result,        \* what extract_relationships returned
    raised,        \* the exception that left extract_relationships, or None
    calls,         \* the get_relationships calls made so far, in call order
    trace,         \* the knowledge-base lookups and delays so far, in order
    faults,        \* number of requests of the run that have failed so far
    selIn,         \* get_shortest_relationship: its argument
    selOut,        \* get_shortest_relationship: its return value
    run,           \* number of the run on this text (1 or 2)
    firstResult,   \* how the first run on this text ended, once it has ended
    host,          \* the program that hosts the pipeline: "web", "cli" or None
    hpc,           \* position of the host
    extractor,     \* app.py: relationship_extractor; main.py: extractor
    request,       \* web: the request analyze_text is answering or answered last
    response,      \* web: its response
    args,          \* cli: the command line and the files it names
    runResult,     \* how the host's call of extract_relationships ended
    outFile,       \* cli: the lines written to the output file
    invocations,   \* number of extract_relationships calls the host has made
    graph,         \* graph_visualizer: its graph, node_colors and edge_colors
    drawn,         \* the invocations of visualize so far, in order
    vcalls         \* number of create_visualization calls so far

vars == <<text, rawSpans, entities, spanDicts, pc, kb, processed, k, pi, pj, relsForward,
          relationships, result, raised, calls, trace, faults, selIn, selOut,
          run, firstResult, host, hpc, extractor, request, response, args,
          runResult, outFile, invocations, graph, drawn, vcalls>>

None == "None"

\* an Optional[Dict] is <<>> for None and <<d>> for the dictionary d
NoDict == <<>>
Some(d) == <<d>>

-----------------------------------------------------------------------------
(* Bounds of the model. *)

\* most spans the NLP model returns for one text
MaxSpans == 3
\* most requests of one run that fail (time out, come back with a bad status
\* or with a malformed payload)
MaxFaults == 1
\* most facts in an argument of get_shortest_relationship
MaxFacts == 3

-----------------------------------------------------------------------------
(* Strings. *)

UpperChars == <<"A","B","C","D","E","F","G","H","I","J","K","L","M",
                "N","O","P","Q","R","S","T","U","V","W","X","Y","Z">>
LowerChars == <<"a","b","c","d","e","f","g","h","i","j","k","l","m",
                "n","o","p","q","r","s","t","u","v","w","x","y","z">>

\* the characters str.strip() removes and \s matches
IsSpace(c) == c \in {" ", "\t", "\n", "\r"}

LowerChar(c) ==
    IF \E i \in 1..Len(UpperChars) : UpperChars[i] = c
    THEN LowerChars[CHOOSE i \in 1..Len(UpperChars) : UpperChars[i] = c]
    ELSE c

\* str.lower()
Lower(s) == [i \in 1..Len(s) |-> LowerChar(s[i])]

\* str.strip()
Strip(s) ==
    IF \A i \in 1..Len(s) : IsSpace(s[i])
    THEN <<>>
    ELSE LET a == CHOOSE i \in 1..Len(s) :
                      /\ ~IsSpace(s[i])
                      /\ \A h \in 1..(i-1) : IsSpace(s[h])
             b == CHOOSE i \in 1..Len(s) :
                      /\ ~IsSpace(s[i])
                      /\ \A h \in (i+1)..Len(s) : IsSpace(s[h])
         IN  SubSeq(s, a, b)

\* s[p-1 : p-1+len(lit)] == lit, p a 1-based index
HasAt(s, p, lit) ==
    /\ p >= 1
    /\ p + Len(lit) - 1 <= Len(s)
    /\ SubSeq(s, p, p + Len(lit) - 1) = lit

\* the Python expression  sub in s
Contains(s, sub) == \E p \in 1..(Len(s) + 1) : HasAt(s, p, sub)

\* first index >= p of s that holds no white space (Len(s)+1 when none)
SkipSpaces(s, p) ==
    IF \E q \in p..Len(s) : ~IsSpace(s[q])
    THEN CHOOSE q \in p..Len(s) :
             /\ ~IsSpace(s[q])
             /\ \A h \in p..(q-1) : IsSpace(s[h])
    ELSE Len(s) + 1

S_CharlesDillon == <<"C","h","a","r","l","e","s"," ","D","i","l","l","o","n">>
S_QuotedCasey == <<"\"","C","a","s","e","y","\"">>
S_Stengel == <<"S","t","e","n","g","e","l">>
S_CaseyStengel == <<"C","a","s","e","y"," ","S","t","e","n","g","e","l">>
S_BrooklynDodgers ==
    <<"B","r","o","o","k","l","y","n"," ","D","o","d","g","e","r","s">>
S_LosAngelesDodgers ==
    <<"L","o","s"," ","A","n","g","e","l","e","s"," ","D","o","d","g","e","r","s">>
S_BaseballHallOfFame ==
    <<"B","a","s","e","b","a","l","l"," ","H","a","l","l"," ","o","f"," ",
      "F","a","m","e">>

-----------------------------------------------------------------------------
(* The regular expression  Charles Dillon\s+"Casey"\s+Stengel . *)

\* 1-based index after a match that starts at index p, 0 when there is none.
\* Each \s+ takes at least one white-space character and all that follow: the
\* literal after it starts with a character that is no white space.
CaseyMatchEnd(s, p) ==
    IF ~HasAt(s, p, S_CharlesDillon) THEN 0 ELSE
    LET a == p + Len(S_CharlesDillon) IN
    IF ~(a <= Len(s) /\ IsSpace(s[a])) THEN 0 ELSE
    LET b == SkipSpaces(s, a) IN
    IF ~HasAt(s, b, S_QuotedCasey) THEN 0 ELSE
    LET c == b + Len(S_QuotedCasey) IN
    IF ~(c <= Len(s) /\ IsSpace(s[c])) THEN 0 ELSE
    LET d == SkipSpaces(s, c) IN
    IF ~HasAt(s, d, S_Stengel) THEN 0 ELSE d + Len(S_Stengel)

\* re.search(...) found nothing
NoMatch == <<>>

\* re.search(...): the leftmost match as <<start, end>>, or NoMatch
CaseySearch(s) ==
    IF \E p \in 1..Len(s) : CaseyMatchEnd(s, p) # 0
    THEN LET p == CHOOSE q \in 1..Len(s) :
                      /\ CaseyMatchEnd(s, q) # 0
                      /\ \A h \in 1..(q-1) : CaseyMatchEnd(s, h) = 0
         IN  <<p - 1, CaseyMatchEnd(s, p) - 1>>
    ELSE NoMatch

-----------------------------------------------------------------------------
(* SmartEntityExtractor. *)

Entity(t, l, s, e) == [text |-> t, label |-> l, start |-> s, end |-> e]

\* line 92: the entities the Casey Stengel correction keeps
NotOverlappingKept(e, start, end) ==
    ~(  \/ (start <= e.start /\ e.start < end)
        \/ (start < e.end /\ e.end <= end)  )

FixBrooklynEntity(e) ==
    IF Contains(e.text, S_BrooklynDodgers)
    THEN [e EXCEPT !.text = S_LosAngelesDodgers]
    ELSE e

\* _fix_brooklyn_dodgers
FixBrooklynDodgers(ents) == [i \in 1..Len(ents) |-> FixBrooklynEntity(ents[i])]

FixHallOfFameEntity(e) ==
    IF Contains(e.text, S_BaseballHallOfFame)
    THEN [e EXCEPT !.label = "FAC"]
    ELSE e

\* _fix_baseball_hall_of_fame
FixBaseballHallOfFame(ents) == [i \in 1..Len(ents) |-> FixHallOfFameEntity(ents[i])]

\* the correction with the matched text as the text of the corrected span
CaseyCorrectionMatchedText(t, ents) ==
    LET m == CaseySearch(t) IN
    IF m # NoMatch
    THEN LET Keep(e) == NotOverlappingKept(e, m[1], m[2])
         IN  <<Entity(SubSeq(t, m[1] + 1, m[2]), "PERSON", m[1], m[2])>>
                 \o SelectSeq(ents, Keep)
    ELSE ents

\* lines 76-95: the Casey Stengel correction
CaseyCorrection(t, ents) ==
    LET m == CaseySearch(t) IN
    IF m # NoMatch
    THEN LET Keep(e) == NotOverlappingKept(e, m[1], m[2])
         IN  <<Entity(S_CaseyStengel, "PERSON", m[1], m[2])>> \o SelectSeq(ents, Keep)
    ELSE ents

\* the corrections with the type correction before the alias substitution
ApplySmartCorrectionsTypeFirst(t, ents) ==
    FixBrooklynDodgers(FixBaseballHallOfFame(CaseyCorrection(t, ents)))

\* _apply_smart_corrections
ApplySmartCorrections(t, ents) ==
    FixBaseballHallOfFame(FixBrooklynDodgers(CaseyCorrection(t, ents)))

\* line 135: text_key
TextKey(e) == Strip(Lower(e.text))

\* the loop of _remove_duplicates from index i on
RECURSIVE RemoveDuplicatesFrom(_, _, _, _)
RemoveDuplicatesFrom(ents, i, seen, unique) ==
    IF i > Len(ents) THEN unique
    ELSE IF TextKey(ents[i]) \notin seen
         THEN RemoveDuplicatesFrom(ents, i + 1, seen \cup {TextKey(ents[i])},
                                   Append(unique, ents[i]))
         ELSE RemoveDuplicatesFrom(ents, i + 1, seen, unique)

\* _remove_duplicates keyed on the text as it is (no lower(), no strip())
RECURSIVE RemoveDuplicatesExactFrom(_, _, _, _)
RemoveDuplicatesExactFrom(ents, i, seen, unique) ==
    IF i > Len(ents) THEN unique
    ELSE IF ents[i].text \notin seen
         THEN RemoveDuplicatesExactFrom(ents, i + 1, seen \cup {ents[i].text},
                                        Append(unique, ents[i]))
         ELSE RemoveDuplicatesExactFrom(ents, i + 1, seen, unique)

RemoveDuplicatesExact(ents) == RemoveDuplicatesExactFrom(ents, 1, {}, <<>>)

\* _remove_duplicates that lets the last span of a key win
RECURSIVE RemoveDuplicatesLastFrom(_, _, _, _)
RemoveDuplicatesLastFrom(ents, i, seen, unique) ==
    IF i < 1 THEN unique
    ELSE IF TextKey(ents[i]) \notin seen
         THEN RemoveDuplicatesLastFrom(ents, i - 1, seen \cup {TextKey(ents[i])},
                                       <<ents[i]>> \o unique)
         ELSE RemoveDuplicatesLastFrom(ents, i - 1, seen, unique)

RemoveDuplicatesLast(ents) == RemoveDuplicatesLastFrom(ents, Len(ents), {}, <<>>)

\* _remove_duplicates
RemoveDuplicates(ents) == RemoveDuplicatesFrom(ents, 1, {}, <<>>)

\* list.sort is stable: e goes after every element whose start is <= its own
InsertByStart(sorted, e) ==
    LET n == Cardinality({i \in 1..Len(sorted) : sorted[i].start <= e.start})
    IN  SubSeq(sorted, 1, n) \o <<e>> \o SubSeq(sorted, n + 1, Len(sorted))

RECURSIVE SortFrom(_, _, _)
SortFrom(ents, i, sorted) ==
    IF i > Len(ents) THEN sorted
    ELSE SortFrom(ents, i + 1, InsertByStart(sorted, ents[i]))

\* entities.sort(key=lambda x: x['start'])
SortByStart(ents) == SortFrom(ents, 1, <<>>)

\* the dicts of ents that reach _fix_brooklyn_dodgers and
\* _fix_baseball_hall_of_fame are the dicts of the list passed in (lines 93,
\* 95, 108, 117): ents as it is once _apply_smart_corrections has returned
SpansAfterCorrections(t, ents) ==
    LET m == CaseySearch(t)
        Passed(e) == m = NoMatch \/ NotOverlappingKept(e, m[1], m[2])
    IN  [i \in 1..Len(ents) |->
            IF Passed(ents[i])
            THEN FixHallOfFameEntity(FixBrooklynEntity(ents[i]))
            ELSE ents[i]]

\* not text or not text.strip()
IsBlank(t) == Len(t) = 0 \/ Len(Strip(t)) = 0

\* extract_entities, given doc.ents
ExtractEntitiesOf(t, ents) ==
    IF IsBlank(t) THEN <<>>
    ELSE SortByStart(RemoveDuplicates(ApplySmartCorrections(t, ents)))

\* lines 44-57 of extract_entities: the list built from doc.ents, as it is
\* after the call of _apply_smart_corrections
SpanDictsAfter(t, ents) ==
    IF IsBlank(t) THEN <<>> ELSE SpansAfterCorrections(t, ents)

-----------------------------------------------------------------------------
(* WikidataClient.get_shortest_relationship. *)

Fact(label, pid) == [predicate |-> label, predicate_pid |-> pid]

\* min(): one scan that replaces the candidate even by a fact of equal length
RECURSIVE MinByPredicateLastFrom(_, _, _)
MinByPredicateLastFrom(rels, i, best) ==
    IF i > Len(rels) THEN best
    ELSE IF Len(rels[i].predicate) <= Len(best.predicate)
         THEN MinByPredicateLastFrom(rels, i + 1, rels[i])
         ELSE MinByPredicateLastFrom(rels, i + 1, best)

GetShortestRelationshipLast(rels) ==
    IF Len(rels) = 0 THEN NoDict
    ELSE Some(MinByPredicateLastFrom(rels, 2, rels[1]))

\* min(relationships, key=lambda x: len(x['predicate'])): one scan that keeps
\* the candidate unless the next fact is strictly shorter
RECURSIVE MinByPredicateFrom(_, _, _)
MinByPredicateFrom(rels, i, best) ==
    IF i > Len(rels) THEN best
    ELSE IF Len(rels[i].predicate) < Len(best.predicate)
         THEN MinByPredicateFrom(rels, i + 1, rels[i])
         ELSE MinByPredicateFrom(rels, i + 1, best)

\* get_shortest_relationship
GetShortestRelationship(rels) ==
    IF Len(rels) = 0 THEN NoDict
    ELSE Some(MinByPredicateFrom(rels, 2, rels[1]))

-----------------------------------------------------------------------------
(* The knowledge base and the calls of WikidataClient.                       *)
(*                                                                           *)
(* kb holds what the run has seen of the knowledge base: the answer of the   *)
(* entity search for each text searched and the claims of each subject       *)
(* fetched.  An answer is chosen when the question is first asked and stays  *)
(* the same afterwards.  The labels are a fixed table.                       *)

EmptyFn == [x \in {} |-> None]
EmptyKb == [search |-> EmptyFn, claims |-> EmptyFn]

\* what wbsearchentities answers: the id of the best match, or no match
SearchAnswers == {"Q1", "Q2", "Q3", "Q4", None}

\* the English label of an entity; Q4 has none
EntityLabel(qid) ==
    CASE qid = "Q1" -> "Alan Turing"
      [] qid = "Q2" -> "United Kingdom"
      [] qid = "Q3" -> "London"
      [] OTHER -> None

\* the English label of a property; P0 has none
PropertyLabel(pid) ==
    CASE pid = "P17" -> "country"
      [] pid = "P36" -> "capital"
      [] pid = "P26" -> "spouse"
      [] OTHER -> None

\* a claim of a subject: the property and the value of its main snak, an
\* entity id or "literal" for a value of another type
Claim(pid, target) == [pid |-> pid, target |-> target]

\* the claims a subject may have, in the order the response lists them
\* (the claims of one property are adjacent)
ClaimLists ==
    { <<>>,
      <<Claim("P17", "Q2")>>,
      <<Claim("P36", "Q2"), Claim("P17", "Q2"), Claim("P26", "Q3")>>,
      <<Claim("P0", "Q1"), Claim("P17", "Q1"), Claim("P17", "Q1"), Claim("P36", "Q1")>>,
      <<Claim("P17", "literal"), Claim("P17", "Q2"), Claim("P36", "Q3"),
        Claim("P26", "Q3")>> }

\* how one HTTP round trip ends:
\*   ok          a response with the expected fields
\*   timeout     requests.Timeout, a RequestException
\*   bad_status  raise_for_status() raises HTTPError, a RequestException
\*   malformed   well-formed JSON in which a field the code indexes is missing
Transport == {"ok", "timeout", "bad_status", "malformed"}

\* the ways the next request can end when f requests have failed
Outcomes(f) == IF f < MaxFaults THEN Transport ELSE {"ok"}

Cost(outcome) == IF outcome = "ok" THEN 0 ELSE 1

\* Python truth value of an Optional[str]
Truthy(x) == x # None /\ x # ""

\* what a call returned, or the exception that left it
Returned(v) == [raised |-> None, value |-> v]
Raised(exc) == [raised |-> exc, value |-> None]

\* search_entity: the except clause catches requests.RequestException only;
\* data['search'][0]['id'] on a match without 'id' raises KeyError
SearchEntity(outcome, answer) ==
    CASE outcome = "ok" -> Returned(answer)
      [] outcome \in {"timeout", "bad_status"} -> Returned(None)
      [] OTHER -> Raised("KeyError")

\* get_entity_label: entity['labels']['en']['value'] on a label without
\* 'value' raises KeyError
GetEntityLabel(outcome, qid) ==
    CASE outcome = "ok" -> Returned(EntityLabel(qid))
      [] outcome \in {"timeout", "bad_status"} -> Returned(None)
      [] OTHER -> Raised("KeyError")

\* get_property_label
GetPropertyLabel(outcome, pid) ==
    CASE outcome = "ok" -> Returned(PropertyLabel(pid))
      [] outcome \in {"timeout", "bad_status"} -> Returned(None)
      [] OTHER -> Raised("KeyError")

LookupEvent(op, arg, r) ==
    [op |-> op, arg |-> arg, ret |-> IF r.raised # None THEN r.raised ELSE r.value]

\* a filter that lets every claim with an entity value through
TargetMatchesEntity(claim, objectQid) == claim.target # "literal"

\* line 126
TargetMatches(claim, objectQid) == claim.target = objectQid

\* lines 120-133: the loop over the claims from claim i on; rels are the facts
\* and evs the lookups so far, f the requests that have failed.  The set of
\* ways the loop can end, one for each way the property-label lookups can end.
RECURSIVE ScanClaims(_, _, _, _, _, _)
ScanClaims(claims, i, objectQid, rels, evs, f) ==
    IF i > Len(claims)
    THEN {[raised |-> None, rels |-> rels, evs |-> evs, faults |-> f]}
    ELSE IF claims[i].target # "literal" /\ TargetMatches(claims[i], objectQid)
    THEN UNION {
           LET r == GetPropertyLabel(o, claims[i].pid)
               e == Append(evs, LookupEvent("get_property_label", claims[i].pid, r))
           IN  IF r.raised # None
               THEN {[raised |-> r.raised, rels |-> <<>>, evs |-> e,
                      faults |-> f + Cost(o)]}
               ELSE ScanClaims(claims, i + 1, objectQid,
                               IF Truthy(r.value)
                               THEN Append(rels, Fact(r.value, claims[i].pid))
                               ELSE rels,
                               e, f + Cost(o))
           : o \in Outcomes(f) }
    ELSE ScanClaims(claims, i + 1, objectQid, rels, evs, f)

\* get_relationships without the except clause of line 137: a request that
\* times out or comes back with a bad status leaves the call as an exception
GetRelationshipsUncaught(outcome, claims, subjectQid, objectQid, f) ==
    LET ev(ret) == <<[op |-> "get_claims", arg |-> <<subjectQid, objectQid>>,
                      ret |-> ret]>>
    IN  CASE outcome = "ok" ->
                ScanClaims(claims, 1, objectQid, <<>>, ev("claims"), f)
          [] outcome \in {"timeout", "bad_status"} ->
                {[raised |-> "RequestException", rels |-> <<>>,
                  evs |-> ev("RequestException"), faults |-> f + 1]}
          [] OTHER ->
                {[raised |-> "KeyError", rels |-> <<>>, evs |-> ev("KeyError"),
                  faults |-> f + 1]}

\* get_relationships(subject_qid, object_qid), the claims request having ended
\* with outcome and, when ok, listed claims for the subject, f requests having
\* failed before it: the ways the call can end.  datavalue['value']['id'] on
\* an entity value without 'id' raises KeyError.
GetRelationships(outcome, claims, subjectQid, objectQid, f) ==
    LET ev(ret) == <<[op |-> "get_claims", arg |-> <<subjectQid, objectQid>>,
                      ret |-> ret]>>
    IN  CASE outcome = "ok" ->
                ScanClaims(claims, 1, objectQid, <<>>, ev("claims"), f)
          [] outcome \in {"timeout", "bad_status"} ->
                {[raised |-> None, rels |-> <<>>, evs |-> ev("RequestException"),
                  faults |-> f + 1]}
          [] OTHER ->
                {[raised |-> "KeyError", rels |-> <<>>, evs |-> ev("KeyError"),
                  faults |-> f + 1]}

-----------------------------------------------------------------------------
(* Texts and the NLP model.  A text is a sequence of tokens, each followed   *)
(* by its separator; the NLP model returns entity spans that cover whole     *)
(* tokens, do not overlap and hold text[start:end] as their text.            *)

Tok(w, sep) == [w |-> w, sep |-> sep]

RECURSIVE DocChars(_)
DocChars(doc) ==
    IF Len(doc) = 0 THEN <<>>
    ELSE doc[1].w \o doc[1].sep \o DocChars(Tail(doc))

\* start_char of token i
TokStart(doc, i) == Len(DocChars(SubSeq(doc, 1, i - 1)))

\* end_char of token i
TokEnd(doc, i) == TokStart(doc, i) + Len(doc[i].w)

\* the span of tokens a..b, labelled l
SpanOf(doc, a, b, l) ==
    Entity(SubSeq(DocChars(doc), TokStart(doc, a) + 1, TokEnd(doc, b)), l,
           TokStart(doc, a), TokEnd(doc, b))

S_Mr == <<"M","r">>
S_Jr == <<"J","r">>
S_Mets == <<"M","e","t","s">>
S_METS == <<"M","E","T","S">>
S_Turing == <<"T","u","r","i","n","g">>
S_UK == <<"U","K">>
S_London == <<"L","o","n","d","o","n">>

\* Mr Charles Dillon "Casey" Stengel Jr
D_Casey ==
    << Tok(S_Mr, <<" ">>), Tok(S_CharlesDillon, <<" ">>),
       Tok(S_QuotedCasey, <<" ", "\n">>), Tok(S_Stengel, <<" ">>), Tok(S_Jr, <<>>) >>

\* Casey Stengel Charles Dillon "Casey" Stengel
D_Earlier ==
    << Tok(S_CaseyStengel, <<" ">>), Tok(S_CharlesDillon, <<"\t">>),
       Tok(S_QuotedCasey, <<" ">>), Tok(S_Stengel, <<>>) >>

\* Mets, a line break, METS
D_Mets == << Tok(S_Mets, <<>>), Tok(<<"\n">>, <<>>), Tok(S_METS, <<>>) >>

\* Brooklyn Dodgers Baseball Hall of Fame Los Angeles Dodgers
D_Dodgers ==
    << Tok(S_BrooklynDodgers, <<" ">>), Tok(S_BaseballHallOfFame, <<" ">>),
       Tok(S_LosAngelesDodgers, <<>>) >>

\* Turing UK London
D_Turing == << Tok(S_Turing, <<" ">>), Tok(S_UK, <<" ">>), Tok(S_London, <<>>) >>

\* Charles Dillon "Casey" Stengel Jr
D_Pair ==
    << Tok(S_CharlesDillon, <<" ">>), Tok(S_QuotedCasey, <<" ">>),
       Tok(S_Stengel, <<" ">>), Tok(S_Jr, <<>>) >>

\* a text of white space only
D_Blank == << Tok(<<" ">>, <<>>) >>

Docs == {D_Casey, D_Earlier, D_Mets, D_Dodgers, D_Turing, D_Blank}

\* the entity types the NLP model assigns in this model
NlpLabels == {"PERSON", "ORG"}

TokenRanges(doc) == {r \in (1..Len(doc)) \X (1..Len(doc)) : r[1] <= r[2]}

Disjoint(r, q) == r[2] < q[1] \/ q[2] < r[1]

\* the lists of at most MaxSpans spans, in any order, that do not overlap
SpanLists(doc, labels) ==
    LET Picks == UNION {[1..n -> TokenRanges(doc) \X labels] : n \in 0..MaxSpans}
        Good == {f \in Picks :
                    \A i, j \in DOMAIN f : i # j => Disjoint(f[i][1], f[j][1])}
    IN  {[i \in DOMAIN f |-> SpanOf(doc, f[i][1][1], f[i][1][2], f[i][2])] : f \in Good}

-----------------------------------------------------------------------------
(* EnhancedRelationshipExtractor and WikidataClient.process_entities. *)

\* lines 212-214 of process_entities: entity.copy() plus qid and wikidata_label
ProcessedEntity(e, qid, label) ==
    [text |-> e.text, label |-> e.label, start |-> e.start, end |-> e.end,
     qid |-> qid, wikidata_label |-> label]

\* a triplet that names its subject and object by the text of their spans
TripletBySpanText(subj, obj, fact) ==
    [subject |-> subj.text, subject_qid |-> subj.qid,
     predicate |-> fact.predicate, predicate_pid |-> fact.predicate_pid,
     object |-> obj.text, object_qid |-> obj.qid]

\* lines 75-82 and 90-97 of extract_relationships
Triplet(subj, obj, fact) ==
    [subject |-> subj.wikidata_label, subject_qid |-> subj.qid,
     predicate |-> fact.predicate, predicate_pid |-> fact.predicate_pid,
     object |-> obj.wikidata_label, object_qid |-> obj.qid]

\* lines 72-84 (and 87-99): one direction of a pair
AppendDirection(rels, facts, subj, obj) ==
    IF Len(facts) > 0
    THEN LET shortest == GetShortestRelationship(facts)
         IN  IF shortest # NoDict
             THEN Append(rels, Triplet(subj, obj, shortest[1]))
             ELSE rels
    ELSE rels

\* line 87 as an elif: the backward facts count only without forward facts
BackwardFactsElif(forward, backward) == IF Len(forward) > 0 THEN <<>> ELSE backward

\* line 87, if rels_backward: the backward facts, whatever the forward facts
BackwardFacts(forward, backward) == backward

\* lines 71-99 with the two blocks in the other order
AssemblePairBackwardFirst(rels, forward, backward, subj, obj) ==
    AppendDirection(
        AppendDirection(rels, BackwardFacts(forward, backward), obj, subj),
        forward, subj, obj)

\* lines 71-99: the forward triplet of the pair, then the backward triplet
AssemblePair(rels, forward, backward, subj, obj) ==
    AppendDirection(
        AppendDirection(rels, forward, subj, obj),
        BackwardFacts(forward, backward), obj, subj)

\* a guard of line 39 that lets one entity through
TooFewEntitiesOne(ents) == Len(ents) < 1

\* line 39, if len(entities) < 2
TooFewEntities(ents) == Len(ents) < 2

\* a guard of line 47 that lets one resolved entity through
TooFewProcessedOne(ents) == Len(ents) < 1

\* line 47, if len(processed_entities) < 2
TooFewProcessed(ents) == Len(ents) < 2

\* line 212 without the copy: the entity of the input list gets the new keys
InputAfterNoCopy(ents, i, qid, label) ==
    [ents EXCEPT ![i] = ProcessedEntity(ents[i], qid, label)]

\* line 212, processed_entity = entity.copy(): the input list and its
\* entities stay as they are
InputAfterCopy(ents, i, qid, label) == ents

\* nx.DiGraph after add_node for every entity and add_edge for every
\* relationship: a set of nodes and a set of edges
GraphNodes(rels, ents) ==
    {ents[i].qid : i \in 1..Len(ents)}
        \cup {rels[i].subject_qid : i \in 1..Len(rels)}
        \cup {rels[i].object_qid : i \in 1..Len(rels)}

\* a graph that keeps every add_edge call as an edge of its own
GraphEdgesParallel(rels) == {<<i, rels[i].subject_qid, rels[i].object_qid>> : i \in 1..Len(rels)}

GraphEdges(rels) == {<<0, rels[i].subject_qid, rels[i].object_qid>> : i \in 1..Len(rels)}

\* temp_graph.in_degree(node)
InDegree(edges, node) == Cardinality({e \in edges : e[3] = node})

\* _add_in_degree_info
AddInDegreeInfo(rels, ents) ==
    LET edges == GraphEdges(rels)
    IN  [i \in 1..Len(rels) |->
            [subject |-> rels[i].subject, subject_qid |-> rels[i].subject_qid,
             predicate |-> rels[i].predicate, predicate_pid |-> rels[i].predicate_pid,
             object |-> rels[i].object, object_qid |-> rels[i].object_qid,
             subject_in_degree |-> InDegree(edges, rels[i].subject_qid),
             object_in_degree |-> InDegree(edges, rels[i].object_qid)]]

\* GraphVisualizer.__init__ (lines 21-23): an empty graph and no colours
EmptyGraph ==
    [nodes |-> EmptyFn, edges |-> EmptyFn, node_colors |-> EmptyFn,
     edge_colors |-> EmptyFn]

\* no create_visualization call has been made
NoVisualization ==
    /\ graph = EmptyGraph
    /\ drawn = <<>>
    /\ vcalls = 0

\* no program hosts the pipeline
NoHost ==
    /\ host = None
    /\ hpc = None
    /\ extractor = None
    /\ request = NoDict
    /\ response = NoDict
    /\ args = NoDict
    /\ runResult = NoDict
    /\ outFile = NoDict
    /\ invocations = 0
    /\ NoVisualization

\* the variables of the visualizer stay as they are
UnchangedVisualizer == UNCHANGED <<graph, drawn, vcalls>>

\* the variables of the host stay as they are
UnchangedHost ==
    /\ UNCHANGED <<host, hpc, extractor, request, response, args, runResult, outFile,
                   invocations>>
    /\ UnchangedVisualizer

\* no run has started
Idle ==
    /\ kb = EmptyKb
    /\ processed = <<>>
    /\ k = 0
    /\ pi = 0
    /\ pj = 0
    /\ relsForward = <<>>
    /\ relationships = <<>>
    /\ result = None
    /\ raised = None
    /\ calls = <<>>
    /\ trace = <<>>
    /\ faults = 0
    /\ run = 1
    /\ firstResult = NoDict

\* the variables of the run stay as they are
UnchangedRun ==
    UNCHANGED <<kb, processed, k, pi, pj, relsForward, relationships, result,
                raised, calls, trace, faults, run, firstResult>>

\* the texts of the runs
RunDocs == {D_Turing, D_Pair}

\* the entity type the NLP model assigns in the runs
RunLabels == {"ORG"}

\* doc.ents is in text order
InTextOrder(spans) == \A i, j \in 1..Len(spans) : i < j => spans[i].start < spans[j].start

Init ==
    /\ \E doc \in RunDocs :
          /\ text = DocChars(doc)
          /\ rawSpans \in {l \in SpanLists(doc, RunLabels) : InTextOrder(l)}
    /\ entities = <<>>
    /\ spanDicts = <<>>
    /\ pc = "start"
    /\ Idle
    /\ NoHost
    /\ selIn = <<>>
    /\ selOut = NoDict

UnchangedInput ==
    /\ UNCHANGED <<text, rawSpans, selIn, selOut, run, firstResult>>
    /\ UnchangedHost

\* the run ends: extract_relationships returns res
Return(res) ==
    /\ pc' = "done"
    /\ result' = res
    /\ raised' = None

\* the run ends: exc leaves extract_relationships
Raise(exc) ==
    /\ pc' = "done"
    /\ result' = None
    /\ raised' = exc

\* lines 37-41 of extract_relationships
ExtractEntities ==
    /\ pc = "start"
    /\ entities' = ExtractEntitiesOf(text, rawSpans)
    /\ spanDicts' = SpanDictsAfter(text, rawSpans)
    /\ IF TooFewEntities(entities')
       THEN Return(<<>>)
       ELSE /\ pc' = "resolve"
            /\ UNCHANGED <<result, raised>>
    /\ k' = 1
    /\ UNCHANGED <<kb, processed, pi, pj, relsForward, relationships, calls, trace,
                   faults>>
    /\ UnchangedInput

\* an iteration of process_entities that ends without a delay
DelayNone == <<>>

\* line 226, time.sleep(0.1): what the end of an iteration adds to the trace
Delay == <<[op |-> "sleep", arg |-> None, ret |-> None]>>

\* one iteration of the loop of process_entities (lines 202-226)
ProcessEntity ==
    /\ pc = "resolve"
    /\ k <= Len(entities)
    /\ LET e == entities[k] IN
       \E o1 \in Outcomes(faults) :
       \E o2 \in Outcomes(faults + Cost(o1)) :
       \E answer \in SearchAnswers :
          /\ (o1 = "ok" /\ e.text \in DOMAIN kb.search) => answer = kb.search[e.text]
          /\ o1 # "ok" => answer = None
          /\ ~Truthy(SearchEntity(o1, answer).value) => o2 = "ok"
          /\ faults' = faults + Cost(o1) + Cost(o2)
          /\ LET s == SearchEntity(o1, answer)
                 l == GetEntityLabel(o2, s.value)
                 ev1 == LookupEvent("search_entity", e.text, s)
                 ev2 == LookupEvent("get_entity_label", s.value, l)
             IN  /\ kb' = IF o1 = "ok"
                          THEN [kb EXCEPT !.search = (e.text :> answer) @@ kb.search]
                          ELSE kb
                 /\ IF s.raised # None
                    THEN /\ Raise(s.raised)
                         /\ trace' = Append(trace, ev1)
                         /\ UNCHANGED <<entities, spanDicts, processed, k>>
                    ELSE IF ~Truthy(s.value)
                    THEN /\ trace' = trace \o <<ev1>> \o Delay
                         /\ k' = k + 1
                         /\ UNCHANGED <<entities, spanDicts, processed, pc, result, raised>>
                    ELSE IF l.raised # None
                    THEN /\ Raise(l.raised)
                         /\ trace' = trace \o <<ev1, ev2>>
                         /\ UNCHANGED <<entities, spanDicts, processed, k>>
                    ELSE IF ~Truthy(l.value)
                    THEN /\ trace' = trace \o <<ev1, ev2>> \o Delay
                         /\ k' = k + 1
                         /\ UNCHANGED <<entities, spanDicts, processed, pc, result, raised>>
                    ELSE /\ trace' = trace \o <<ev1, ev2>> \o Delay
                         /\ k' = k + 1
                         /\ processed' =
                               Append(processed, ProcessedEntity(e, s.value, l.value))
                         /\ entities' = InputAfterCopy(entities, k, s.value, l.value)
                         /\ UNCHANGED spanDicts
                         /\ UNCHANGED <<pc, result, raised>>
    /\ UNCHANGED <<pi, pj, relsForward, relationships, calls>>
    /\ UnchangedInput

\* process_entities returns; lines 45-49 of extract_relationships
ProcessEntitiesReturn ==
    /\ pc = "resolve"
    /\ k > Len(entities)
    /\ IF TooFewProcessed(processed)
       THEN /\ Return(<<>>)
            /\ UNCHANGED <<pi, pj>>
       ELSE /\ pc' = "forward"
            /\ pi' = 1
            /\ pj' = 2
            /\ UNCHANGED <<result, raised>>
    /\ UNCHANGED <<entities, spanDicts, kb, processed, k, relsForward, relationships, calls,
                   trace, faults>>
    /\ UnchangedInput

\* a get_relationships call of the pair loop that ends as r: the request ends
\* with outcome o, and the claims an ok response lists for the subject are
\* those the knowledge base holds
CallGetRelationships(subj, obj, dir, o, claims, r) ==
    /\ (o = "ok" /\ subj.qid \in DOMAIN kb.claims) => claims = kb.claims[subj.qid]
    /\ o # "ok" => claims = <<>>
    /\ r \in GetRelationships(o, claims, subj.qid, obj.qid, faults)
    /\ kb' = IF o = "ok"
             THEN [kb EXCEPT !.claims = (subj.qid :> claims) @@ kb.claims]
             ELSE kb
    /\ trace' = trace \o r.evs
    /\ faults' = r.faults
    /\ calls' = Append(calls,
          [i |-> pi, j |-> pj, dir |-> dir, subject |-> subj.qid,
           object |-> obj.qid,
           ret |-> IF r.raised # None THEN r.raised ELSE "list",
           rels |-> r.rels, evs |-> r.evs])

\* lines 64-66: rels_forward = get_relationships(subject, object)
GetRelationshipsForward ==
    /\ pc = "forward"
    /\ \E o \in Outcomes(faults) :
       \E claims \in ClaimLists :
       \E r \in GetRelationships(o, claims, processed[pi].qid, processed[pj].qid,
                                 faults) :
          /\ CallGetRelationships(processed[pi], processed[pj], "forward",
                                  o, claims, r)
          /\ IF r.raised # None
             THEN /\ Raise(r.raised)
                  /\ UNCHANGED <<pi, pj, relsForward, relationships>>
             ELSE /\ relsForward' = r.rels
                  /\ pc' = "backward"
                  /\ UNCHANGED <<pi, pj, relationships, result, raised>>
    /\ UNCHANGED <<entities, spanDicts, processed, k>>
    /\ UnchangedInput

\* lines 67-102: rels_backward = get_relationships(object, subject), the
\* triplets of the pair, and the step of the two loops
GetRelationshipsBackward ==
    /\ pc = "backward"
    /\ \E o \in Outcomes(faults) :
       \E claims \in ClaimLists :
       \E r \in GetRelationships(o, claims, processed[pj].qid, processed[pi].qid,
                                 faults) :
          /\ CallGetRelationships(processed[pj], processed[pi], "backward",
                                  o, claims, r)
          /\ IF r.raised # None
             THEN /\ Raise(r.raised)
                  /\ UNCHANGED <<pi, pj, relsForward, relationships>>
             ELSE /\ relationships' =
                        AssemblePair(relationships, relsForward, r.rels,
                                     processed[pi], processed[pj])
                  /\ relsForward' = <<>>
                  /\ IF pj < Len(processed)
                     THEN /\ pj' = pj + 1
                          /\ pi' = pi
                          /\ pc' = "forward"
                     ELSE IF pi + 1 < Len(processed)
                     THEN /\ pi' = pi + 1
                          /\ pj' = pi + 2
                          /\ pc' = "forward"
                     ELSE /\ pc' = "degrees"
                          /\ UNCHANGED <<pi, pj>>
                  /\ UNCHANGED <<result, raised>>
    /\ UNCHANGED <<entities, spanDicts, processed, k>>
    /\ UnchangedInput

\* lines 104-107: _add_in_degree_info and the return
AnnotateAndReturn ==
    /\ pc = "degrees"
    /\ Return(AddInDegreeInfo(relationships, processed))
    /\ UNCHANGED <<entities, spanDicts, kb, processed, k, pi, pj, relsForward, relationships,
                   calls, trace, faults>>
    /\ UnchangedInput

Next ==
    \/ ExtractEntities
    \/ ProcessEntity
    \/ ProcessEntitiesReturn
    \/ GetRelationshipsForward
    \/ GetRelationshipsBackward
    \/ AnnotateAndReturn

Spec == Init /\ [][Next]_vars

-----------------------------------------------------------------------------
(* Two runs on one text: extract_relationships is called a second time with  *)
(* the same text, the NLP model returns the same spans and the knowledge     *)
(* base is the same: what the first run has seen of it stays as it is.       *)

\* relationships of a run that starts with the list an earlier run left
RelationshipsKept(old) == old

\* line 54, relationships = []
RelationshipsAtStart(old) == <<>>

\* how a run ended: the list it returned or the exception that left it
Outcome(res, exc) == Some([raised |-> exc, value |-> res])

\* extract_relationships(text) is called again after a first run that the
\* knowledge base answered in full; the locals of the call are new, the
\* extractor objects hold nothing of the first run
RunAgain ==
    /\ pc = "done"
    /\ run = 1
    /\ faults = 0
    /\ run' = 2
    /\ firstResult' = Outcome(result, raised)
    /\ pc' = "start"
    /\ entities' = <<>>
    /\ spanDicts' = <<>>
    /\ processed' = <<>>
    /\ k' = 0
    /\ pi' = 0
    /\ pj' = 0
    /\ relsForward' = <<>>
    /\ relationships' = RelationshipsAtStart(relationships)
    /\ result' = None
    /\ raised' = None
    /\ calls' = <<>>
    /\ trace' = <<>>
    /\ UNCHANGED <<text, rawSpans, kb, faults, selIn, selOut>>
    /\ UnchangedHost

NextTwice == Next \/ RunAgain

SpecTwice == Init /\ [][NextTwice]_vars

-----------------------------------------------------------------------------
(* The hosts of the pipeline: the web server (app.py) and the command line   *)
(* (main.py).  A host sees the pipeline as a call that returns a list of     *)
(* triplets or lets an exception out.                                        *)

\* most calls of extract_relationships a web server makes
MaxRequests == 2

\* app.py line 89: the longest text analyze_text accepts
MaxTextLen == 10000

\* a str by its lengths: lead white-space characters, then core characters
\* from the first to the last character that is no white space, then trail
\* white-space characters
Str(lead, core, trail) == [lead |-> lead, core |-> core, trail |-> trail]

\* len(s)
StrLen(s) == s.lead + s.core + s.trail

\* s.strip()
StripStr(s) == IF s.core = 0 THEN Str(0, 0, 0) ELSE Str(0, s.core, 0)

\* the texts of the requests and of the input files
SampleStrs ==
    {Str(0, 0, 0), Str(2, 0, 0), Str(0, 1, 0), Str(1, 20, 1),
     Str(0, MaxTextLen - 1, 0), Str(3, MaxTextLen, 2), Str(0, MaxTextLen + 1, 0),
     Str(1, MaxTextLen + 1, 0)}

\* JSON values as json.loads returns them
JNull == [t |-> "null"]
JNumber(n) == [t |-> "number", n |-> n]
JString(str) == [t |-> "string", s |-> str]
JArray(n) == [t |-> "array", n |-> n]
JObject(fields) == [t |-> "object", fields |-> fields]

\* the objects of the requests: {}, {"lang": "en"}, {"text": v}
SampleObjects ==
    {JObject(EmptyFn), JObject([lang |-> JString(Str(0, 2, 0))])}
        \cup {JObject([text |-> v]) :
                v \in {JNull, JNumber(7)} \cup {JString(x) : x \in SampleStrs}}

\* the bodies of the requests: no body, a body that is no JSON sent as JSON,
\* and JSON values
Bodies ==
    {[kind |-> "none"], [kind |-> "invalid"]}
        \cup {[kind |-> "json", value |-> v] :
                v \in {JNull, JNumber(0), JNumber(7), JString(Str(0, 1, 0)),
                       JArray(0), JArray(1)} \cup SampleObjects}

\* request.get_json(): a parsed value, None for JSON null; on a body that is
\* no JSON it raises BadRequest; on a request that is not sent as JSON it
\* returns None or raises UnsupportedMediaType, as the Flask release does
GetJsonRaises(exc) == [raised |-> exc, value |-> JNull]
GetJson(body) ==
    CASE body.kind = "json" -> {Returned(body.value)}
      [] body.kind = "invalid" -> {GetJsonRaises("BadRequest")}
      [] OTHER -> {Returned(JNull), GetJsonRaises("UnsupportedMediaType")}

\* not data
Falsy(v) ==
    \/ v.t = "null"
    \/ v.t = "number" /\ v.n = 0
    \/ v.t = "array" /\ v.n = 0
    \/ v.t = "string" /\ StrLen(v.s) = 0
    \/ v.t = "object" /\ DOMAIN v.fields = {}

\* data.get('text', '')
TextField(v) ==
    IF "text" \in DOMAIN v.fields THEN v.fields.text ELSE JString(Str(0, 0, 0))

\* the triplets extract_relationships returns to the hosts
T_Plain ==
    [subject |-> <<"A">>, subject_qid |-> <<"Q","1">>,
     predicate |-> <<"p">>, predicate_pid |-> <<"P","1">>,
     object |-> <<"B">>, object_qid |-> <<"Q","2">>,
     subject_in_degree |-> 0, object_in_degree |-> 1]
T_Apostrophe ==
    [subject |-> <<"B">>, subject_qid |-> <<"Q","2">>,
     predicate |-> <<"p">>, predicate_pid |-> <<"P","1">>,
     object |-> <<"O","'","N">>, object_qid |-> <<"Q","3">>,
     subject_in_degree |-> 1, object_in_degree |-> 12]
T_Quoted ==
    [subject |-> <<"\"","C","\"">>, subject_qid |-> <<"Q","4">>,
     predicate |-> <<"o","'","\"">>, predicate_pid |-> <<"P","2">>,
     object |-> <<"B">>, object_qid |-> <<"Q","2">>,
     subject_in_degree |-> 0, object_in_degree |-> 1]

\* the ways a call of extract_relationships ends for a host: it returns a
\* list or lets an exception out, and then there is no list
RunRaises(exc) == [raised |-> exc, value |-> <<>>]
PipelineOutcomes ==
    {Returned(r) : r \in {<<>>, <<T_Plain>>, <<T_Plain, T_Apostrophe>>, <<T_Quoted>>}}
        \cup {RunRaises("KeyError")}

\* the ways the construction of EnhancedRelationshipExtractor ends
InitOutcomes == {"ok", "nlp_unavailable", "client_unconstructible"}

\* a response of the web server
ErrorResponse(status, message) ==
    [status |-> status, error |-> message, count |-> 0, relationships |-> <<>>]
SuccessResponse(rels) ==
    [status |-> 200, error |-> None, count |-> Len(rels), relationships |-> rels]

\* an analyze_text that takes every extractor for a ready one
ExtractorUnavailableNever(ext) == FALSE

\* app.py line 69: relationship_extractor is None
ExtractorUnavailable(ext) == ext = None

\* analyze_text (lines 64-114): the response and the number of
\* extract_relationships calls, get_json having ended as g and the call of
\* the pipeline, when it is made, as o.  Every exception of the body is
\* answered with status 500.
AnalyzeText(ext, g, o) ==
    LET Answer(resp, n) == [response |-> resp, invoked |-> n]
        Failed == Answer(ErrorResponse(500, "Analysis failed"), 0)
    IN  IF ExtractorUnavailable(ext)
        THEN Answer(ErrorResponse(500, "Relationship extractor not available"), 0)
        ELSE IF g.raised # None THEN Failed
        ELSE IF Falsy(g.value)
        THEN Answer(ErrorResponse(400, "No JSON data provided"), 0)
        ELSE IF g.value.t # "object" THEN Failed
        ELSE IF TextField(g.value).t # "string" THEN Failed
        ELSE LET txt == StripStr(TextField(g.value).s)
             IN  IF StrLen(txt) = 0
                 THEN Answer(ErrorResponse(400, "No text provided"), 0)
                 ELSE IF StrLen(txt) > MaxTextLen
                 THEN Answer(ErrorResponse(400, "Text too long (maximum 10,000 characters)"), 0)
                 ELSE IF ext = None THEN Failed
                 ELSE IF o.raised # None
                 THEN Answer(ErrorResponse(500, "Analysis failed"), 1)
                 ELSE Answer(SuccessResponse(o.value), 1)

\* str(n) for n >= 0
RECURSIVE IntStr(_)
IntStr(n) ==
    LET digit == <<"0","1","2","3","4","5","6","7","8","9">>[(n % 10) + 1]
    IN  IF n < 10 THEN <<digit>> ELSE IntStr(n \div 10) \o <<digit>>

\* the characters of a str with the backslash and the quote q escaped
RECURSIVE Escaped(_, _)
Escaped(str, q) ==
    IF Len(str) = 0 THEN <<>>
    ELSE (IF str[1] \in {"\\", q} THEN <<"\\", str[1]>> ELSE <<str[1]>>)
             \o Escaped(Tail(str), q)

\* repr(str): double quotes when the str holds ' and no ", else single quotes
ReprStr(str) ==
    IF (\E i \in 1..Len(str) : str[i] = "'") /\ ~(\E i \in 1..Len(str) : str[i] = "\"")
    THEN <<"\"">> \o Escaped(str, "\"") \o <<"\"">>
    ELSE <<"'">> \o Escaped(str, "'") \o <<"'">>


\* str(rel): the keys in the order extract_relationships and
\* _add_in_degree_info set them
ReprDict(rel) ==
    LET Item(key, shown) == ReprStr(key) \o <<":", " ">> \o shown
        Sep == <<",", " ">>
    IN  <<"{">>
        \o Item(<<"s","u","b","j","e","c","t">>,
             ReprStr(rel.subject)) \o Sep
        \o Item(<<"s","u","b","j","e","c","t","_","q","i","d">>,
             ReprStr(rel.subject_qid)) \o Sep
        \o Item(<<"p","r","e","d","i","c","a","t","e">>,
             ReprStr(rel.predicate)) \o Sep
        \o Item(<<"p","r","e","d","i","c","a","t","e","_","p","i","d">>,
             ReprStr(rel.predicate_pid)) \o Sep
        \o Item(<<"o","b","j","e","c","t">>,
             ReprStr(rel.object)) \o Sep
        \o Item(<<"o","b","j","e","c","t","_","q","i","d">>,
             ReprStr(rel.object_qid)) \o Sep
        \o Item(<<"s","u","b","j","e","c","t","_","i","n","_","d","e","g","r","e","e">>,
             IntStr(rel.subject_in_degree)) \o Sep
        \o Item(<<"o","b","j","e","c","t","_","i","n","_","d","e","g","r","e","e">>,
             IntStr(rel.object_in_degree))
        \o <<"}">>

\* .replace('"', "'")
ReplaceDoubleQuotes(str) ==
    [i \in 1..Len(str) |-> IF str[i] = "\"" THEN "'" ELSE str[i]]

\* format_output
FormatOutput(rels) == [i \in 1..Len(rels) |-> ReplaceDoubleQuotes(ReprDict(rels[i]))]

\* the variables of the pipeline stay as they are
UnchangedPipeline ==
    /\ UNCHANGED <<text, rawSpans, entities, spanDicts, pc, selIn, selOut>>
    /\ UnchangedRun

\* a command line: the input file is missing, unreadable or holds content
CommandLines ==
    [input : {"missing", "unreadable", "content"}, content : SampleStrs,
     visualize : BOOLEAN, writable : BOOLEAN]

InitHost ==
    /\ host \in {"web", "cli"}
    /\ hpc = IF host = "web" THEN "import" ELSE "read"
    /\ extractor = "unset"
    /\ request = NoDict
    /\ response = NoDict
    /\ args \in IF host = "cli" THEN {Some(a) : a \in CommandLines} ELSE {NoDict}
    /\ runResult = NoDict
    /\ outFile = NoDict
    /\ invocations = 0
    /\ text = <<>>
    /\ rawSpans = <<>>
    /\ entities = <<>>
    /\ spanDicts = <<>>
    /\ pc = "idle"
    /\ selIn = <<>>
    /\ selOut = NoDict
    /\ Idle
    /\ NoVisualization

\* app.py lines 28-34: the module is loaded; a failed construction is logged
\* and the server starts without an extractor
WebImport ==
    /\ host = "web"
    /\ hpc = "import"
    /\ \E i \in InitOutcomes : extractor' = IF i = "ok" THEN "ready" ELSE None
    /\ hpc' = "serving"
    /\ UNCHANGED <<host, request, response, args, runResult, outFile, invocations>>
    /\ UnchangedPipeline
    /\ UnchangedVisualizer

\* POST /api/analyze
WebAnalyze ==
    /\ host = "web"
    /\ hpc = "serving"
    /\ invocations < MaxRequests
    /\ \E body \in Bodies :
       \E g \in GetJson(body) :
       \E o \in PipelineOutcomes :
          LET a == AnalyzeText(extractor, g, o)
          IN  /\ request' = Some(body)
              /\ response' = Some(a.response)
              /\ invocations' = invocations + a.invoked
              /\ runResult' = IF a.invoked = 1 THEN Some(o) ELSE NoDict
    /\ UNCHANGED <<host, hpc, extractor, args, outFile>>
    /\ UnchangedPipeline
    /\ UnchangedVisualizer

\* main.py lines 25-39: the input file is read and trimmed
CliReadInput ==
    /\ host = "cli"
    /\ hpc = "read"
    /\ hpc' = IF args[1].input # "content" \/ StrLen(StripStr(args[1].content)) = 0
              THEN "exit1"
              ELSE "init"
    /\ UNCHANGED <<host, extractor, request, response, args, runResult, outFile,
                   invocations>>
    /\ UnchangedPipeline
    /\ UnchangedVisualizer

\* main.py line 44, extractor = EnhancedRelationshipExtractor(): an exception
\* of a constructor leaves main
CliInit ==
    /\ host = "cli"
    /\ hpc = "init"
    /\ \E i \in InitOutcomes :
          IF i = "ok"
          THEN extractor' = "ready" /\ hpc' = "run"
          ELSE extractor' = None /\ hpc' = "crashed"
    /\ UNCHANGED <<host, request, response, args, runResult, outFile, invocations>>
    /\ UnchangedPipeline
    /\ UnchangedVisualizer

\* main.py line 45, relationships = extractor.extract_relationships(text)
CliRun ==
    /\ host = "cli"
    /\ hpc = "run"
    /\ \E o \in PipelineOutcomes :
          /\ runResult' = Some(o)
          /\ hpc' = IF o.raised # None THEN "crashed"
                    ELSE IF args[1].visualize THEN "visualize" ELSE "write"
    /\ invocations' = invocations + 1
    /\ UNCHANGED <<host, extractor, request, response, args, outFile>>
    /\ UnchangedPipeline
    /\ UnchangedVisualizer

\* most create_visualization calls on one extractor
MaxVisualizations == 3

\* lines 26-45 of graph_visualizer.py: entity_type_colors.get(t, '#CCCCCC')
EntityTypeColor(t) ==
    CASE t = "PERSON" -> "#FF6B6B"
      [] t = "GPE" -> "#4ECDC4"
      [] t = "ORG" -> "#45B7D1"
      [] t = "FAC" -> "#96CEB4"
      [] t = "LOC" -> "#FFEAA7"
      [] t = "EVENT" -> "#DDA0DD"
      [] t = "PRODUCT" -> "#98D8C8"
      [] t = "WORK_OF_ART" -> "#F7DC6F"
      [] t = "LAW" -> "#BB8FCE"
      [] t = "LANGUAGE" -> "#85C1E9"
      [] t = "MONEY" -> "#F8C471"
      [] t = "CARDINAL" -> "#F1948A"
      [] t = "DATE" -> "#82E0AA"
      [] t = "TIME" -> "#D7BDE2"
      [] t = "PERCENT" -> "#F9E79F"
      [] t = "ORDINAL" -> "#AED6F1"
      [] t = "QUANTITY" -> "#A9DFBF"
      [] t = "NORP" -> "#FADBD8"
      [] OTHER -> "#CCCCCC"

\* f with key k set to v, the way a dict or a graph attribute is assigned
Put(f, key, v) == [x \in DOMAIN f \cup {key} |-> IF x = key THEN v ELSE f[x]]

\* f with the entries of g set on top of it, the way add_node and add_edge
\* update the attributes of a node or an edge that exists
Merged(f, g) ==
    [x \in DOMAIN f \cup DOMAIN g |-> IF x \in DOMAIN g THEN g[x] ELSE f[x]]

\* graph.add_node(n, **attrs)
AddNode(g, n, attrs) ==
    [g EXCEPT !.nodes =
        Put(g.nodes, n, IF n \in DOMAIN g.nodes THEN Merged(g.nodes[n], attrs) ELSE attrs)]

\* graph.add_edge(u, v, **attrs): nodes that are missing are added without
\* attributes
AddEdge(g, u, v, attrs) ==
    LET withU == IF u \in DOMAIN g.nodes THEN g ELSE AddNode(g, u, EmptyFn)
        withV == IF v \in DOMAIN withU.nodes THEN withU ELSE AddNode(withU, v, EmptyFn)
        e == <<u, v>>
    IN  [withV EXCEPT !.edges =
            Put(withV.edges, e,
                IF e \in DOMAIN withV.edges THEN Merged(withV.edges[e], attrs) ELSE attrs)]

\* add_entities (lines 47-70), from entity i on
RECURSIVE AddEntitiesFrom(_, _, _)
AddEntitiesFrom(g, ents, i) ==
    IF i > Len(ents) THEN g
    ELSE LET e == ents[i]
             g1 == AddNode(g, e.qid,
                           [label |-> e.wikidata_label, entity_type |-> e.label,
                            qid |-> e.qid])
             g2 == [g1 EXCEPT !.node_colors =
                       Put(g1.node_colors, e.qid, EntityTypeColor(e.label))]
         IN  AddEntitiesFrom(g2, ents, i + 1)

\* add_relationships (lines 72-95), from triplet i on
RECURSIVE AddRelationshipsFrom(_, _, _)
AddRelationshipsFrom(g, rels, i) ==
    IF i > Len(rels) THEN g
    ELSE LET r == rels[i]
             g1 == AddEdge(g, r.subject_qid, r.object_qid,
                           [predicate |-> r.predicate, predicate_pid |-> r.predicate_pid,
                            label |-> r.predicate])
             g2 == [g1 EXCEPT !.edge_colors =
                       Put(g1.edge_colors, <<r.subject_qid, r.object_qid>>, "#333333")]
         IN  AddRelationshipsFrom(g2, rels, i + 1)

\* a create_visualization that does not clear the graph
ClearGraphKept(g) == g

\* clear (lines 191-195)
ClearGraph(g) == EmptyGraph

\* visualize (lines 97-174) on graph g: it returns at once on a graph
\* without nodes; the node labels (line 143) raise KeyError on a node
\* without a label; savefig raises OSError when the path cannot be written
Visualize(g, saves) ==
    IF DOMAIN g.nodes = {} THEN None
    ELSE IF \E n \in DOMAIN g.nodes : "label" \notin DOMAIN g.nodes[n] THEN "KeyError"
    ELSE IF ~saves THEN "OSError"
    ELSE None

\* an entity process_entities resolves for create_visualization
PE(qid, label, type) == [qid |-> qid, wikidata_label |-> label, label |-> type]

\* what the two passes of create_visualization (lines 151-153) come back
\* with: the resolved entities of process_entities and the triplets of
\* extract_relationships, which makes its own requests and may resolve an
\* entity the first pass has missed
PassResults ==
    LET a == PE(<<"Q","1">>, <<"A">>, "PERSON")
        b == PE(<<"Q","2">>, <<"B">>, "ORG")
        b2 == PE(<<"Q","2">>, <<"B","2">>, "FAC")
        o == PE(<<"Q","3">>, <<"O","'","N">>, "GPE")
        c == PE(<<"Q","4">>, <<"\"","C","\"">>, "NORP")
    IN  { [processed |-> <<>>, rels |-> <<>>],
          [processed |-> <<>>, rels |-> <<T_Plain>>],
          [processed |-> <<a, b>>, rels |-> <<>>],
          [processed |-> <<a, b>>, rels |-> <<T_Plain>>],
          [processed |-> <<b2, a, b, o>>, rels |-> <<T_Plain, T_Apostrophe>>],
          [processed |-> <<c, b>>, rels |-> <<T_Quoted>>],
          [processed |-> <<a>>, rels |-> <<T_Plain>>] }

\* the ways a create_visualization call goes: process_entities raises,
\* extract_relationships raises, or both return and the image can be saved
\* or not
VisualizationCalls ==
    {[ends |-> e, processed |-> <<>>, rels |-> <<>>, saves |-> TRUE] :
        e \in {"resolve_raises", "run_raises"}}
    \cup {[ends |-> "passes_return", processed |-> p.processed, rels |-> p.rels,
           saves |-> sv] : p \in PassResults, sv \in BOOLEAN}

\* create_visualization (lines 142-168) on a visualizer in state g: the
\* state it leaves, the number of extract_relationships calls it makes, the
\* exception that leaves it and whether it has invoked visualize
CreateVisualizationOf(g, c) ==
    LET built == AddRelationshipsFrom(AddEntitiesFrom(ClearGraph(g), c.processed, 1), c.rels, 1)
    IN  CASE c.ends = "resolve_raises" ->
                [graph |-> g, invoked |-> 0, raised |-> "KeyError", visualized |-> FALSE]
          [] c.ends = "run_raises" ->
                [graph |-> g, invoked |-> 1, raised |-> "KeyError", visualized |-> FALSE]
          [] c.processed = <<>> ->
                [graph |-> g, invoked |-> 1, raised |-> None, visualized |-> FALSE]
          [] OTHER ->
                [graph |-> built, invoked |-> 1, raised |-> Visualize(built, c.saves),
                 visualized |-> TRUE]

\* the effect of a create_visualization call c on the visualizer; r is what
\* CreateVisualizationOf gives for it
Visualized(c, r) ==
    /\ graph' = r.graph
    /\ drawn' = IF r.visualized
                THEN Append(drawn, [processed |-> c.processed, rels |-> c.rels,
                                    graph |-> r.graph])
                ELSE drawn
    /\ vcalls' = vcalls + 1
    /\ invocations' = invocations + r.invoked

\* main.py lines 48-51, extractor.create_visualization(text, viz_path)
CliVisualize ==
    /\ host = "cli"
    /\ hpc = "visualize"
    /\ \E c \in VisualizationCalls :
          LET r == CreateVisualizationOf(graph, c)
          IN  /\ Visualized(c, r)
              /\ hpc' = IF r.raised # None THEN "crashed" ELSE "write"
    /\ UNCHANGED <<host, extractor, request, response, args, runResult, outFile>>
    /\ UnchangedPipeline

\* main.py lines 54-65: the formatted lines are written to the output file
CliWrite ==
    /\ host = "cli"
    /\ hpc = "write"
    /\ IF args[1].writable
       THEN /\ outFile' = Some(FormatOutput(runResult[1].value))
            /\ hpc' = "exit0"
       ELSE /\ outFile' = outFile
            /\ hpc' = "exit1"
    /\ UNCHANGED <<host, extractor, request, response, args, runResult, invocations>>
    /\ UnchangedPipeline
    /\ UnchangedVisualizer

NextHost ==
    \/ WebImport
    \/ WebAnalyze
    \/ CliReadInput
    \/ CliInit
    \/ CliRun
    \/ CliVisualize
    \/ CliWrite

SpecHost == InitHost /\ [][NextHost]_vars

-----------------------------------------------------------------------------
(* create_visualization, called again and again on one extractor *)

InitVisualize ==
    /\ host = None
    /\ hpc = None
    /\ extractor = "ready"
    /\ request = NoDict
    /\ response = NoDict
    /\ args = NoDict
    /\ runResult = NoDict
    /\ outFile = NoDict
    /\ invocations = 0
    /\ NoVisualization
    /\ text = <<>>
    /\ rawSpans = <<>>
    /\ entities = <<>>
    /\ spanDicts = <<>>
    /\ pc = "idle"
    /\ selIn = <<>>
    /\ selOut = NoDict
    /\ Idle

\* extractor.create_visualization(text, save_path); an exception that
\* leaves it is caught by the caller, who goes on with the same extractor
CreateVisualization ==
    /\ extractor = "ready"
    /\ host = None
    /\ vcalls < MaxVisualizations
    /\ \E c \in VisualizationCalls : Visualized(c, CreateVisualizationOf(graph, c))
    /\ UNCHANGED <<host, hpc, extractor, request, response, args, runResult, outFile>>
    /\ UnchangedPipeline

SpecVisualize == InitVisualize /\ [][CreateVisualization]_vars

-----------------------------------------------------------------------------
(* The Span Corrector on its own: extract_entities on every text and every   *)
(* span list of the bounds.                                                  *)

InitCorrector ==
    /\ \E doc \in Docs :
          /\ text = DocChars(doc)
          /\ rawSpans \in SpanLists(doc, NlpLabels)
    /\ entities = <<>>
    /\ spanDicts = <<>>
    /\ pc = "start"
    /\ Idle
    /\ NoHost
    /\ selIn = <<>>
    /\ selOut = NoDict

\* extract_entities(text), the NLP model having returned rawSpans
CorrectSpans ==
    /\ pc = "start"
    /\ entities' = ExtractEntitiesOf(text, rawSpans)
    /\ spanDicts' = SpanDictsAfter(text, rawSpans)
    /\ pc' = "extracted"
    /\ UNCHANGED <<text, rawSpans, selIn, selOut>>
    /\ UnchangedRun
    /\ UnchangedHost

NextCorrector == CorrectSpans

SpecCorrector == InitCorrector /\ [][NextCorrector]_vars

-----------------------------------------------------------------------------
(* Properties of the Span Corrector (under SpecCorrector). *)

Range(f) == {f[i] : i \in DOMAIN f}

\* the half-open intervals [a, b) and [s, e) share a position
Overlaps(a, b, s, e) == a < e /\ s < b

\* the span the Casey Stengel correction produces for a match m
CorrectedSpan(m) == Entity(S_CaseyStengel, "PERSON", m[1], m[2])

\* rawSpans[i] after the alias and the type correction
FixedRaw(i) == FixHallOfFameEntity(FixBrooklynEntity(rawSpans[i]))

\* C2: the list extract_entities returns is sorted ascending by start and
\* holds no two entries whose lowercased, trimmed text is equal.
C2_SortedAndUnique ==
    pc = "extracted" =>
        /\ \A i, j \in 1..Len(entities) :
              i < j => entities[i].start <= entities[j].start
        /\ \A i, j \in 1..Len(entities) :
              i # j => Strip(Lower(entities[i].text)) # Strip(Lower(entities[j].text))

\* C2 witness: an unsorted input with two spans that differ in text and agree
\* in key, of which one is dropped, and two entities are returned.
C2_Witness ==
    /\ pc = "extracted"
    /\ Len(entities) = 2
    /\ Len(rawSpans) = 3
    /\ rawSpans[1].start > rawSpans[2].start
    /\ \E i, j \in 1..Len(rawSpans) :
          /\ rawSpans[i].text # rawSpans[j].text
          /\ Strip(Lower(rawSpans[i].text)) = Strip(Lower(rawSpans[j].text))

\* C3 (as claimed): when the pattern matches at [s, e), the one output span
\* that overlaps [s, e) is the corrected span, and no input span that overlaps
\* [s, e) in any way is in the output.
C3_OnlyCorrectedSpanInRegion ==
    (pc = "extracted" /\ CaseySearch(text) # NoMatch) =>
        LET m == CaseySearch(text) IN
        /\ \A i \in 1..Len(entities) :
              Overlaps(entities[i].start, entities[i].end, m[1], m[2])
                  => entities[i] = CorrectedSpan(m)
        /\ \E i \in 1..Len(entities) : entities[i] = CorrectedSpan(m)
        /\ \A i \in 1..Len(rawSpans) :
              Overlaps(rawSpans[i].start, rawSpans[i].end, m[1], m[2])
                  => /\ rawSpans[i] \notin Range(entities)
                     /\ FixedRaw(i) \notin Range(entities)

\* C4 (as claimed): for every key the span that is first in input order is
\* kept: an input span that the collapse does not remove and that no earlier
\* input span shares its key with is in the output.
C4_FirstInInputOrderWins ==
    (pc = "extracted" /\ ~IsBlank(text)) =>
        LET m == CaseySearch(text)
            Kept(i) == m = NoMatch \/ NotOverlappingKept(rawSpans[i], m[1], m[2])
        IN  \A i \in 1..Len(rawSpans) :
                (  /\ Kept(i)
                   /\ \A h \in 1..(i-1) :
                         Kept(h) => TextKey(FixedRaw(h)) # TextKey(FixedRaw(i))  )
                => FixedRaw(i) \in Range(entities)

\* C4 (amended): the corrected span, when the correction fires, is kept and
\* wins over every input span of its key; an input span is in the output
\* exactly if the collapse keeps it, its key is not the corrected span's and
\* no earlier input span that the collapse keeps has its key.
C4_FirstInCorrectedOrderWins ==
    (pc = "extracted" /\ ~IsBlank(text)) =>
        LET m == CaseySearch(text)
            Kept(i) == m = NoMatch \/ NotOverlappingKept(rawSpans[i], m[1], m[2])
        IN  /\ m # NoMatch => CorrectedSpan(m) \in Range(entities)
            /\ Len(entities) =
                  Cardinality({Strip(Lower(FixedRaw(i).text)) :
                                  i \in {h \in 1..Len(rawSpans) : Kept(h)}}
                              \cup (IF m # NoMatch
                                    THEN {Strip(Lower(S_CaseyStengel))} ELSE {}))
            /\ \A i \in 1..Len(rawSpans) :
                  FixedRaw(i) \in Range(entities) <=>
                      /\ Kept(i)
                      /\ m # NoMatch =>
                            Strip(Lower(FixedRaw(i).text)) # Strip(Lower(S_CaseyStengel))
                      /\ \A h \in 1..(i-1) :
                            Kept(h) => Strip(Lower(FixedRaw(h).text))
                                          # Strip(Lower(FixedRaw(i).text))

\* C4 witness: the correction fires, an input span located before the match
\* has the corrected span's key, and the corrected span is the one returned.
C4_Witness ==
    /\ pc = "extracted"
    /\ CaseySearch(text) # NoMatch
    /\ \E i \in 1..Len(rawSpans) :
          /\ rawSpans[i].end <= CaseySearch(text)[1]
          /\ TextKey(rawSpans[i]) = TextKey(CorrectedSpan(CaseySearch(text)))
          /\ rawSpans[i] \notin Range(entities)
    /\ CorrectedSpan(CaseySearch(text)) \in Range(entities)

-----------------------------------------------------------------------------
(* get_shortest_relationship on its own: every fact list of the bounds. *)

\* the facts the lists are made of: two labels of 7 characters, one of 6, one of 8
SampleFacts ==
    { Fact("country", "P17"), Fact("capital", "P36"),
      Fact("spouse", "P26"), Fact("employer", "P108") }

InitSelect ==
    /\ selIn \in UNION {[1..n -> SampleFacts] : n \in 0..MaxFacts}
    /\ selOut = NoDict
    /\ pc = "select"
    /\ text = <<>>
    /\ rawSpans = <<>>
    /\ entities = <<>>
    /\ spanDicts = <<>>
    /\ Idle
    /\ NoHost

SelectBest ==
    /\ pc = "select"
    /\ selOut' = GetShortestRelationship(selIn)
    /\ pc' = "selected"
    /\ UNCHANGED <<text, rawSpans, entities, spanDicts, selIn>>
    /\ UnchangedRun
    /\ UnchangedHost

NextSelect == SelectBest

SpecSelect == InitSelect /\ [][NextSelect]_vars

\* C5: on a non-empty list get_shortest_relationship returns the fact at the
\* first position that holds a label of minimal length; on the empty list it
\* returns None.
C5_ShortestFirst ==
    pc = "selected" =>
        IF selIn = <<>> THEN selOut = NoDict
        ELSE /\ Len(selOut) = 1
             /\ \E i \in 1..Len(selIn) :
                   /\ selOut[1] = selIn[i]
                   /\ \A j \in 1..Len(selIn) :
                         Len(selIn[i].predicate) <= Len(selIn[j].predicate)
                   /\ \A h \in 1..(i-1) :
                         Len(selIn[h].predicate) > Len(selIn[i].predicate)

\* C5 witness: two facts of minimal length with different properties, a longer
\* fact before them, and the first of the two returned.
C5_Witness ==
    /\ pc = "selected"
    /\ Len(selIn) = 3
    /\ Len(selIn[1].predicate) > Len(selIn[2].predicate)
    /\ Len(selIn[2].predicate) = Len(selIn[3].predicate)
    /\ selIn[2] # selIn[3]
    /\ selOut = Some(selIn[2])

-----------------------------------------------------------------------------
(* Properties of a pipeline run (under Spec). *)

\* extract_relationships has returned its list
RunReturned == pc = "done" /\ raised = None

\* position of the pair (i, j), i < j, in the enumeration of the pairs of n entities
Rank(i, j, n) == (i - 1) * n - ((i * (i - 1)) \div 2) + (j - i)

\* the calls of get_relationships that returned at least one fact
NonEmptyCalls == SelectSeq(calls, LAMBDA c : Len(c.rels) > 0)

\* C1 (as claimed): object_in_degree is the number of triplets of the result
\* with that object id, subject_in_degree the number of triplets whose object
\* id is the subject id; every triplet counts once.
C1_InDegreeCountsTriplets ==
    RunReturned =>
        \A q \in 1..Len(result) :
            /\ result[q].object_in_degree =
                  Cardinality({h \in 1..Len(result) :
                                  result[h].object_qid = result[q].object_qid})
            /\ result[q].subject_in_degree =
                  Cardinality({h \in 1..Len(result) :
                                  result[h].object_qid = result[q].subject_qid})

\* C1 (amended): object_in_degree is the number of distinct subject ids among
\* the triplets of the result with that object id, subject_in_degree the
\* number of distinct subject ids among the triplets whose object id is the
\* subject id; triplets with the same subject and object id count once.
C1_InDegreeCountsSubjects ==
    RunReturned =>
        \A q \in 1..Len(result) :
            /\ result[q].object_in_degree =
                  Cardinality({result[h].subject_qid :
                                  h \in {g \in 1..Len(result) :
                                            result[g].object_qid = result[q].object_qid}})
            /\ result[q].subject_in_degree =
                  Cardinality({result[h].subject_qid :
                                  h \in {g \in 1..Len(result) :
                                            result[g].object_qid = result[q].subject_qid}})

\* C1 witness: two resolved entities share an id, two triplets of the result
\* have the same subject and object id, and the object's in-degree is 1.
C1_Witness ==
    /\ RunReturned
    /\ \E a, b \in 1..Len(processed) : a # b /\ processed[a].qid = processed[b].qid
    /\ \E q, h \in 1..Len(result) :
          /\ q # h
          /\ result[q].subject_qid = result[h].subject_qid
          /\ result[q].object_qid = result[h].object_qid
          /\ result[q].subject_qid # result[q].object_qid
          /\ result[q].object_in_degree = 1

\* C6: the get_relationships calls are those of the pair enumeration, forward
\* then backward for each pair i < j in order, none left out and none made
\* twice; after a forward call that returned, the backward call is next,
\* whatever the forward call returned; a run that returns has made both calls
\* for every pair, and for every subject/object id pair its result holds as
\* many triplets as calls with that subject and object returned a fact.
C6_BothDirections ==
    LET n == Len(processed) IN
    /\ \A p \in 1..Len(calls) :
          LET c == calls[p] IN
          /\ 1 <= c.i /\ c.i < c.j /\ c.j <= n
          /\ c.dir \in {"forward", "backward"}
          /\ p = 2 * Rank(c.i, c.j, n) - (IF c.dir = "forward" THEN 1 ELSE 0)
          /\ c.dir = "forward" =>
                c.subject = processed[c.i].qid /\ c.object = processed[c.j].qid
          /\ c.dir = "backward" =>
                c.subject = processed[c.j].qid /\ c.object = processed[c.i].qid
    /\ (Len(calls) % 2 = 1 /\ raised = None) => pc = "backward"
    /\ (RunReturned /\ n >= 2) =>
          /\ Len(calls) = n * (n - 1)
          /\ Len(result) = Len(NonEmptyCalls)
          /\ \A c \in Range(calls) :
                Cardinality({q \in 1..Len(result) :
                                /\ result[q].subject_qid = c.subject
                                /\ result[q].object_qid = c.object})
                  = Cardinality({p \in 1..Len(calls) :
                                /\ calls[p].subject = c.subject
                                /\ calls[p].object = c.object
                                /\ Len(calls[p].rels) > 0})

\* C6 witness: a run of three resolved entities has returned, and for one
\* pair both calls returned facts and both triplets are in the result.
C6_Witness ==
    /\ RunReturned
    /\ Len(processed) = 3
    /\ Len(calls) = 6
    /\ \E p \in {1, 3, 5} :
          /\ Len(calls[p].rels) > 0
          /\ Len(calls[p + 1].rels) > 0
          /\ calls[p].subject # calls[p].object
    /\ \E p \in {1, 3, 5} : Len(calls[p].rels) > 0 /\ Len(calls[p + 1].rels) = 0

\* C7 (as claimed): no failure of a knowledge-base call leaves the run: the
\* run never raises and ends with a list.
C7_RunNeverRaises == pc = "done" => raised = None

\* C8 (as claimed): with fewer than 2 spans from the NLP model the run returns
\* the empty list and makes no knowledge-base lookup.
C8_FewRawSpansNoLookup ==
    Len(rawSpans) < 2 =>
        /\ trace = <<>>
        /\ calls = <<>>
        /\ pc \in {"start", "done"}
        /\ pc = "done" => (raised = None /\ result = <<>>)

\* C8 (amended): with fewer than 2 entities from extract_entities (the spans
\* of the NLP model after correction and deduplication) the run returns the
\* empty list and makes no knowledge-base lookup.
C8_FewEntitiesNoLookup ==
    (pc # "start" /\ Len(entities) < 2) =>
        /\ trace = <<>>
        /\ calls = <<>>
        /\ pc = "done"
        /\ raised = None
        /\ result = <<>>

\* C8 witness: a text that matches the correction pattern, one entity after
\* the correction, and the run has returned the empty list.
C8_Witness ==
    /\ RunReturned
    /\ CaseySearch(text) # NoMatch
    /\ Len(entities) = 1
    /\ result = <<>>
    /\ trace = <<>>

\* a triplet of the result without its two in-degrees
WithoutDegrees(t) ==
    [subject |-> t.subject, subject_qid |-> t.subject_qid,
     predicate |-> t.predicate, predicate_pid |-> t.predicate_pid,
     object |-> t.object, object_qid |-> t.object_qid]

\* C9: the result lists one triplet for each call that returned a fact, in
\* call order, so in pair order and forward before backward within a pair:
\* the forward triplet has entity i as subject and entity j as object, the
\* backward triplet entity j as subject and entity i as object; the degree
\* annotation keeps the triplets and their order.
C9_PairOrder ==
    (RunReturned /\ Len(processed) >= 2) =>
        LET n == Len(processed)
            ne == NonEmptyCalls
            Pos(c) == 2 * Rank(c.i, c.j, n) - (IF c.dir = "forward" THEN 1 ELSE 0)
        IN  /\ Len(result) = Len(ne)
            /\ \A q \in 1..Len(result) :
                  LET c == ne[q]
                      subj == IF c.dir = "forward" THEN processed[c.i] ELSE processed[c.j]
                      obj == IF c.dir = "forward" THEN processed[c.j] ELSE processed[c.i]
                  IN  /\ result[q].subject_qid = subj.qid
                      /\ result[q].subject = subj.wikidata_label
                      /\ result[q].object_qid = obj.qid
                      /\ result[q].object = obj.wikidata_label
                      /\ \E f \in Range(c.rels) :
                            /\ result[q].predicate = f.predicate
                            /\ result[q].predicate_pid = f.predicate_pid
            /\ \A q, h \in 1..Len(ne) :
                  q < h =>
                      \/ Rank(ne[q].i, ne[q].j, n) < Rank(ne[h].i, ne[h].j, n)
                      \/ /\ ne[q].i = ne[h].i
                         /\ ne[q].j = ne[h].j
                         /\ ne[q].dir = "forward"
                         /\ ne[h].dir = "backward"
            /\ \A q, h \in 1..Len(ne) : q < h => Pos(ne[q]) < Pos(ne[h])
            /\ Len(relationships) = Len(result)
            /\ \A q \in 1..Len(result) : WithoutDegrees(result[q]) = relationships[q]

\* C9 witness: three resolved entities with three ids, triplets of two pairs
\* and both triplets of one pair, its forward triplet before its backward one.
C9_Witness ==
    /\ RunReturned
    /\ Len(processed) = 3
    /\ Cardinality({processed[i].qid : i \in 1..3}) = 3
    /\ Len(result) >= 3
    /\ \E q \in 1..(Len(result) - 1) :
          /\ result[q].subject_qid = result[q + 1].object_qid
          /\ result[q].object_qid = result[q + 1].subject_qid
          /\ \E a, b \in 1..3 :
                /\ a < b
                /\ result[q].subject_qid = processed[a].qid
                /\ result[q].object_qid = processed[b].qid

\* the positions in the trace of the search_entity lookups, in order
SearchPositions ==
    SelectSeq([p \in 1..Len(trace) |-> p], LAMBDA p : trace[p].op = "search_entity")

\* what search_entity returned for the m-th entity
SearchRet(m) == trace[SearchPositions[m]].ret

\* what get_entity_label returned for the m-th entity (looked up only for an id)
LabelRet(m) == trace[SearchPositions[m] + 1].ret

\* C10: after the first k-1 iterations of process_entities, and so when it
\* returns, each of these entities has been searched once, in input order;
\* processed_entities holds, in input order, exactly the entities for which
\* the search returned an id and the label lookup for that id a label, each
\* with the fields of its span unchanged plus that id and label; after every
\* iteration, the last one included, the input entities are as
\* extract_entities returned them.
C10_ResolveAll ==
    (pc # "start" /\ raised = None) =>
        LET done == k - 1
            pos == SearchPositions
            \* the entities with an id from the search and a label for that id
            res == {m \in 1..Len(pos) :
                       /\ trace[pos[m]].ret # None
                       /\ trace[pos[m] + 1].op = "get_entity_label"
                       /\ trace[pos[m] + 1].arg = trace[pos[m]].ret
                       /\ trace[pos[m] + 1].ret # None}
        IN  /\ Len(pos) = done
            /\ \A m \in 1..done : trace[pos[m]].arg = entities[m].text
            /\ Len(processed) = Cardinality(res)
            /\ \A m \in res :
                  LET e == processed[Cardinality({h \in res : h <= m})]
                  IN  /\ e.text = entities[m].text
                      /\ e.label = entities[m].label
                      /\ e.start = entities[m].start
                      /\ e.end = entities[m].end
                      /\ e.qid = trace[pos[m]].ret
                      /\ e.wikidata_label = trace[pos[m] + 1].ret
            /\ pc = "resolve" => entities = ExtractEntitiesOf(text, rawSpans)

\* C10 witness: process_entities has returned two of three entities, the
\* first and the third; the second has an id and no label.
C10_Witness ==
    /\ pc = "forward"
    /\ Len(entities) = 3
    /\ k = 4
    /\ Len(processed) = 2
    /\ processed[1].text = entities[1].text
    /\ processed[2].text = entities[3].text
    /\ SearchRet(2) # None
    /\ LabelRet(2) = None

-----------------------------------------------------------------------------
(* Properties of get_relationships (under Spec). *)

\* the positions 1..n as a sequence
Positions(n) == [p \in 1..n |-> p]

\* C11: a get_relationships call that returns after an answered claims request
\* has looked up the property label of exactly the claims of the subject whose
\* target is the object id, in claim order, and returns one fact for each of
\* these lookups that gave a label, in that order and with repetitions; a
\* call whose claims request failed returns no fact.
C11_OneFactPerMatchingClaim ==
    \A p \in 1..Len(calls) :
        LET c == calls[p]
            labs == Tail(c.evs)
        IN  (c.ret = "list" /\ c.evs[1].ret = "claims") =>
                LET claims == kb.claims[c.subject]
                    matching == SelectSeq(Positions(Len(claims)),
                                          LAMBDA i : claims[i].target = c.object)
                    good == SelectSeq(Positions(Len(labs)),
                                      LAMBDA q : labs[q].ret # None)
                IN  /\ Len(labs) = Len(matching)
                    /\ \A q \in 1..Len(labs) :
                          /\ labs[q].op = "get_property_label"
                          /\ labs[q].arg = claims[matching[q]].pid
                    /\ c.rels = [x \in 1..Len(good) |->
                                    Fact(labs[good[x]].ret, labs[good[x]].arg)]

\* C11 witness: a call that returned two facts of the same property, after a
\* claim whose property has no label, and a call that skipped a claim with
\* another target.
C11_Witness ==
    /\ \E p \in 1..Len(calls) :
          /\ calls[p].ret = "list"
          /\ Len(calls[p].rels) >= 2
          /\ calls[p].rels[1] = calls[p].rels[2]
          /\ calls[p].evs[2].ret = None
    /\ \E p \in 1..Len(calls) :
          /\ calls[p].ret = "list"
          /\ calls[p].evs[1].ret = "claims"
          /\ Len(calls[p].rels) >= 1
          /\ Len(calls[p].rels) < Len(kb.claims[calls[p].subject])
          /\ \E i \in 1..Len(kb.claims[calls[p].subject]) :
                kb.claims[calls[p].subject][i].target \notin {calls[p].object, "literal"}

-----------------------------------------------------------------------------
(* Properties of the pair loop and its guard (under Spec). *)

\* process_entities has returned
ProcessEntitiesReturned == pc \notin {"start", "resolve"} /\ k > Len(entities)

\* the claims requests of the trace
ClaimsRequests == {p \in 1..Len(trace) : trace[p].op = "get_claims"}

\* C12: while fewer than 2 entities have resolved no get_relationships call
\* is made and no claims are requested; when process_entities has returned
\* fewer than 2 entities, the run has ended, without an exception and with
\* the empty list.
C12_FewResolvedNoDiscover ==
    Len(processed) < 2 =>
        /\ calls = <<>>
        /\ ClaimsRequests = {}
        /\ ProcessEntitiesReturned =>
              /\ pc = "done"
              /\ raised = None
              /\ result = <<>>

\* C12 witness: three entities were extracted, the lookups of two of them
\* found nothing, one resolved, and the run has returned the empty list.
C12_Witness ==
    /\ RunReturned
    /\ Len(entities) = 3
    /\ Len(processed) = 1
    /\ k = 4
    /\ result = <<>>
    /\ Len(SearchPositions) = 3

\* the claims request of the call timed out or came back with a bad status
RequestFailed(c) == c.evs[1].ret = "RequestException"

\* the triplet a call that returned facts gives
TripletOfCall(c) ==
    LET subj == IF c.dir = "forward" THEN processed[c.i] ELSE processed[c.j]
        obj == IF c.dir = "forward" THEN processed[c.j] ELSE processed[c.i]
    IN  Triplet(subj, obj, GetShortestRelationship(c.rels)[1])

\* C13: a get_relationships call whose request times out returns the empty
\* list and does not end the run; a run that returns after such a call has
\* made the calls of every pair in both directions, and its result holds, in
\* call order, the triplet of every call that returned facts.
C13_TimeoutKeepsOtherPairs ==
    (\E p \in 1..Len(calls) : RequestFailed(calls[p])) =>
        /\ \A p \in 1..Len(calls) :
              RequestFailed(calls[p]) =>
                  /\ calls[p].ret = "list"
                  /\ calls[p].rels = <<>>
                  /\ p = Len(calls) => raised = None
        /\ RunReturned =>
              LET n == Len(processed)
                  ne == NonEmptyCalls
              IN  /\ Len(calls) = n * (n - 1)
                  /\ \A i, j \in 1..n :
                        i < j =>
                            /\ calls[2 * Rank(i, j, n) - 1].dir = "forward"
                            /\ calls[2 * Rank(i, j, n) - 1].i = i
                            /\ calls[2 * Rank(i, j, n) - 1].j = j
                            /\ calls[2 * Rank(i, j, n)].dir = "backward"
                            /\ calls[2 * Rank(i, j, n)].i = i
                            /\ calls[2 * Rank(i, j, n)].j = j
                  /\ Len(result) = Len(ne)
                  /\ \A q \in 1..Len(ne) :
                        WithoutDegrees(result[q]) = TripletOfCall(ne[q])

\* C13 witness: a run of three resolved entities has returned; the claims
\* request of one pair timed out, and calls of the two other pairs returned
\* facts after it and have their triplets in the result.
C13_Witness ==
    /\ RunReturned
    /\ Len(processed) = 3
    /\ \E p \in 1..Len(calls) :
          /\ RequestFailed(calls[p])
          /\ \E q, h \in (p + 1)..Len(calls) :
                /\ <<calls[q].i, calls[q].j>> # <<calls[p].i, calls[p].j>>
                /\ <<calls[h].i, calls[h].j>> # <<calls[p].i, calls[p].j>>
                /\ <<calls[q].i, calls[q].j>> # <<calls[h].i, calls[h].j>>
                /\ Len(calls[q].rels) > 0
                /\ Len(calls[h].rels) > 0
    /\ Len(result) >= 2

-----------------------------------------------------------------------------
(* Properties of the delay (under Spec). *)

\* the event is a knowledge-base lookup
IsLookup(ev) ==
    ev.op \in {"search_entity", "get_entity_label", "get_claims", "get_property_label"}

\* C14 (as claimed): no two knowledge-base lookups of a run are issued back
\* to back; a delay lies between any two successive lookups.
C14_DelayBetweenLookups ==
    \A p \in 1..(Len(trace) - 1) : ~(IsLookup(trace[p]) /\ IsLookup(trace[p + 1]))

\* C14 (amended): the delay is taken once at the end of every iteration of
\* process_entities, and nowhere else: every entity search but the first
\* follows a delay, every delay follows the last lookup of an iteration, the
\* label lookup follows the search of its entity without a delay, and from
\* the first claims request on the lookups follow one another without a delay.
C14_DelayAfterEachEntity ==
    /\ pc # "start" =>
          Cardinality({p \in 1..Len(trace) : trace[p].op = "sleep"}) = k - 1
    /\ \A p \in 1..Len(trace) :
          /\ trace[p].op = "search_entity" =>
                (p = 1 \/ trace[p - 1].op = "sleep")
          /\ trace[p].op = "sleep" =>
                (p > 1 /\ trace[p - 1].op \in {"search_entity", "get_entity_label"})
          /\ trace[p].op = "get_entity_label" =>
                (p > 1 /\ trace[p - 1].op = "search_entity")
          /\ trace[p].op = "get_claims" =>
                /\ p > 1
                /\ IF \E h \in 1..(p - 1) : trace[h].op = "get_claims"
                   THEN trace[p - 1].op \in {"get_claims", "get_property_label"}
                   ELSE trace[p - 1].op = "sleep"
          /\ trace[p].op = "get_property_label" =>
                (p > 1 /\ trace[p - 1].op \in {"get_claims", "get_property_label"})

\* C14 witness: a run has returned in which a label lookup followed its search,
\* a search followed a delay, a property-label lookup followed a claims
\* request and a claims request followed a property-label lookup.
C14_Witness ==
    /\ RunReturned
    /\ \E p \in 2..Len(trace) :
          trace[p].op = "get_entity_label" /\ trace[p - 1].op = "search_entity"
    /\ \E p \in 2..Len(trace) :
          trace[p].op = "search_entity" /\ trace[p - 1].op = "sleep"
    /\ \E p \in 2..Len(trace) :
          trace[p].op = "get_property_label" /\ trace[p - 1].op = "get_claims"
    /\ \E p \in 2..Len(trace) :
          trace[p].op = "get_claims" /\ trace[p - 1].op = "get_property_label"

-----------------------------------------------------------------------------
(* Properties of the entities the pair loop works on (under Spec). *)

\* C15: every resolved entity has the id the search returned for its text and
\* the label of that id; every get_relationships call is made with the ids of
\* two resolved entities at the positions i < j of its pair; every triplet of
\* the result has as subject and as object the id and label of two resolved
\* entities at distinct positions.
C15_OnlyResolvedEntities ==
    /\ \A a \in 1..Len(processed) :
          /\ processed[a].qid # None
          /\ processed[a].wikidata_label # None
          /\ processed[a].text \in DOMAIN kb.search
          /\ kb.search[processed[a].text] = processed[a].qid
          /\ EntityLabel(processed[a].qid) = processed[a].wikidata_label
          /\ \E m \in 1..Len(entities) : entities[m].text = processed[a].text
    /\ \A p \in 1..Len(calls) :
          /\ calls[p].i \in 1..Len(processed)
          /\ calls[p].j \in 1..Len(processed)
          /\ calls[p].i # calls[p].j
          /\ {calls[p].subject, calls[p].object}
                = {processed[calls[p].i].qid, processed[calls[p].j].qid}
    /\ RunReturned =>
          \A q \in 1..Len(result) :
              \E a, b \in 1..Len(processed) :
                  /\ a # b
                  /\ result[q].subject_qid = processed[a].qid
                  /\ result[q].subject = processed[a].wikidata_label
                  /\ result[q].object_qid = processed[b].qid
                  /\ result[q].object = processed[b].wikidata_label

\* C15 witness: of three extracted entities one was not resolved; the run has
\* returned triplets, and the text of that entity is the text of no resolved
\* entity.
C15_Witness ==
    /\ RunReturned
    /\ Len(entities) = 3
    /\ Len(processed) = 2
    /\ Len(result) >= 1
    /\ \E m \in 1..3 : \A a \in 1..2 : processed[a].text # entities[m].text

-----------------------------------------------------------------------------
(* Properties of two runs on one text (under SpecTwice). *)

\* C16: when a second run on the same text, with the same spans and the same
\* knowledge base, returns and no request of either run has failed, it
\* returns the list the first run returned, in-degrees included.
C16_SecondRunSameResult ==
    (run = 2 /\ RunReturned /\ faults = 0) =>
        firstResult = Outcome(result, None)

\* C16 witness: both runs have returned the same list of at least two
\* triplets, one of them with an in-degree of 2.
C16_Witness ==
    /\ run = 2
    /\ RunReturned
    /\ faults = 0
    /\ firstResult = Outcome(result, None)
    /\ Len(result) >= 2
    /\ \E q \in 1..Len(result) : result[q].object_in_degree = 2

-----------------------------------------------------------------------------
(* Properties of the corrected span in a run (under Spec). *)

\* the entities of the run at the matched region m
AtRegion(m) ==
    {i \in 1..Len(entities) : entities[i].start = m[1] /\ entities[i].end = m[2]}

\* C17 (as claimed): when the correction fires on a match at [s, e), the
\* corrected span carries the matched text, text[s:e].
C17_CorrectedTextIsMatchedText ==
    (pc # "start" /\ CaseySearch(text) # NoMatch) =>
        LET m == CaseySearch(text)
        IN  \E i \in AtRegion(m) :
               /\ entities[i].label = "PERSON"
               /\ entities[i].text = SubSeq(text, m[1] + 1, m[2])

\* C17 (amended): when the correction fires on a match at [s, e), the
\* corrected span has start s, end e, type PERSON and the fixed text
\* Casey Stengel, whatever text[s:e] is, and Casey Stengel is the text the
\* entity search is made with for that span.
C17_CorrectedTextIsCaseyStengel ==
    (pc # "start" /\ CaseySearch(text) # NoMatch) =>
        LET m == CaseySearch(text)
        IN  /\ \E i \in AtRegion(m) :
                   /\ entities[i].label = "PERSON"
                   /\ entities[i].text = S_CaseyStengel
            /\ \A i \in AtRegion(m) :
                   /\ entities[i].label = "PERSON" => entities[i].text = S_CaseyStengel
                   /\ i <= Len(SearchPositions) =>
                         trace[SearchPositions[i]].arg = entities[i].text
            /\ \A p \in 1..Len(trace) :
                   trace[p].op = "search_entity" =>
                       trace[p].arg # SubSeq(text, m[1] + 1, m[2])

\* C17 witness: the correction has fired, the matched text is not
\* Casey Stengel, and the entity search has been made with Casey Stengel.
C17_Witness ==
    /\ CaseySearch(text) # NoMatch
    /\ SubSeq(text, CaseySearch(text)[1] + 1, CaseySearch(text)[2]) # S_CaseyStengel
    /\ \E p \in 1..Len(trace) :
          trace[p].op = "search_entity" /\ trace[p].arg = S_CaseyStengel
    /\ pc = "forward"

-----------------------------------------------------------------------------
(* Properties of the web server                                              *)

\* the body holds no JSON, or a JSON object whose text is absent, empty,
\* nothing but white space, or longer than MaxTextLen once trimmed
RejectedAtBoundary(body) ==
    \/ body.kind # "json"
    \/ /\ body.value.t = "object"
       /\ TextField(body.value).t = "string"
       /\ LET txt == StripStr(TextField(body.value).s)
          IN  StrLen(txt) = 0 \/ StrLen(txt) > MaxTextLen

\* C18: a server with an extractor answers a request without a JSON body, or
\* whose text is absent, empty, white space only or longer than 10000
\* characters after trimming, with status 400 and without a call of the
\* pipeline; for every other request it calls the pipeline exactly once and
\* answers 200 with the text, the triplets and their number.
C18_ValidationAtBoundary ==
    [][(host = "web" /\ hpc = "serving" /\ extractor = "ready")
          => IF RejectedAtBoundary(request'[1])
             THEN /\ response'[1].status = 400
                  /\ invocations' = invocations
             ELSE /\ invocations' = invocations + 1
                  /\ response'[1].status = 200
                  /\ runResult'[1].raised = None
                  /\ response'[1].relationships = runResult'[1].value
                  /\ response'[1].count = Len(runResult'[1].value)]_vars

\* the construction of the extractor has failed
InitFailed == host # None /\ extractor = None

\* C19 as stated: after a failed construction of the NLP model or of the
\* knowledge-base client the start of the process is aborted, in the web
\* server as on the command line, and no pipeline run is made.
C19_StartupAborted ==
    InitFailed => hpc = "crashed" /\ invocations = 0

\* C19: after a failed construction no pipeline run is ever made.  On the
\* command line the exception ends the process before a run and nothing is
\* written; the web server starts all the same and answers every analyze
\* request with status 500, 'Relationship extractor not available'.
C19_FailedInitNoRun ==
    InitFailed =>
        /\ invocations = 0
        /\ runResult = NoDict
        /\ outFile = NoDict
        /\ host = "cli" => hpc = "crashed"
        /\ host = "web" =>
              /\ hpc = "serving"
              /\ response # NoDict =>
                    /\ response[1].status = 500
                    /\ response[1].error = "Relationship extractor not available"

\* a server without an extractor has answered a request with a text that
\* would have been analysed
C19_Witness ==
    /\ InitFailed
    /\ host = "web"
    /\ request # NoDict
    /\ request[1].kind = "json"
    /\ request[1].value.t = "object"
    /\ ~RejectedAtBoundary(request[1])
    /\ TextField(request[1].value).t = "string"
    /\ response # NoDict

-----------------------------------------------------------------------------
(* Properties of the command line                                            *)

\* the process has ended
CliEnded == host = "cli" /\ hpc \in {"exit0", "exit1", "crashed"}

\* C20: a command line with --visualize whose pipeline run has returned and
\* whose output file can be written ends with the output file holding
\* exactly the formatted triplets of that run, whether the visualization
\* succeeds or fails.
C20_OutputDespiteVisualization ==
    (/\ CliEnded
     /\ args[1].visualize
     /\ args[1].writable
     /\ runResult # NoDict
     /\ runResult[1].raised = None)
        => outFile = Some(FormatOutput(runResult[1].value))

-----------------------------------------------------------------------------
(* Effects of the Span Corrector (under SpecCorrector)                       *)

\* C21: the Span Corrector has no effect besides the sequence it returns:
\* after the call the sequence of spans passed in, and the text, type, start
\* and end of each of its spans, are what they were before the call, and no
\* external call has been made.
C21_CorrectorLeavesInput ==
    (pc = "extracted" /\ ~IsBlank(text)) =>
        /\ spanDicts = rawSpans
        /\ trace = <<>>
        /\ calls = <<>>

\* the input spans the multi-token name collapse lets through
PassedCollapse(i) ==
    LET m == CaseySearch(text)
    IN  m = NoMatch \/ NotOverlappingKept(rawSpans[i], m[1], m[2])

\* the entities returned for the positions of rawSpans[i]
ReturnedAt(i) ==
    {e \in Range(entities) : e.start = rawSpans[i].start /\ e.end = rawSpans[i].end}

\* C22: the rules apply in the order collapse, alias substitution, type
\* correction, and the deduplication runs after them on the corrected text.
\* A span whose text contains 'Brooklyn Dodgers' is returned with the whole
\* text 'Los Angeles Dodgers' and its own type, also when its text contains
\* 'Baseball Hall of Fame'; any other span that contains 'Baseball Hall of
\* Fame' is returned with type FAC and its own text; the spans whose text is
\* 'Los Angeles Dodgers' after the substitution are returned as one, the
\* first of them.
C22_RuleOrder ==
    (pc = "extracted" /\ ~IsBlank(text)) =>
        /\ \A i \in 1..Len(rawSpans) :
              LET e == rawSpans[i] IN
              /\ Contains(e.text, S_BrooklynDodgers) =>
                    ReturnedAt(i) \subseteq {[e EXCEPT !.text = S_LosAngelesDodgers]}
              /\ (~Contains(e.text, S_BrooklynDodgers)
                    /\ Contains(e.text, S_BaseballHallOfFame)) =>
                    ReturnedAt(i) \subseteq {[e EXCEPT !.label = "FAC"]}
        /\ \A e \in Range(entities) : ~Contains(e.text, S_BrooklynDodgers)
        /\ LET Dodgers(i) ==
                  /\ PassedCollapse(i)
                  /\ \/ Contains(rawSpans[i].text, S_BrooklynDodgers)
                     \/ TextKey(rawSpans[i]) = Strip(Lower(S_LosAngelesDodgers))
               All == {i \in 1..Len(rawSpans) : Dodgers(i)}
           IN  /\ Cardinality({j \in 1..Len(entities) :
                      TextKey(entities[j]) = Strip(Lower(S_LosAngelesDodgers))})
                      = IF All = {} THEN 0 ELSE 1
               /\ \A i \in All :
                     ReturnedAt(i) # {} <=> \A h \in All : i <= h

\* C22 witness: a span that contains both substrings and a span that is
\* 'Los Angeles Dodgers' from the start come back as one entity, the first
\* of the two in the list, which is the span with both substrings.
C22_Witness ==
    /\ pc = "extracted"
    /\ Len(rawSpans) = 2
    /\ Contains(rawSpans[1].text, S_BrooklynDodgers)
    /\ Contains(rawSpans[1].text, S_BaseballHallOfFame)
    /\ rawSpans[2].text = S_LosAngelesDodgers
    /\ rawSpans[1].label # rawSpans[2].label
    /\ entities = <<[rawSpans[1] EXCEPT !.text = S_LosAngelesDodgers]>>

-----------------------------------------------------------------------------
(* Properties of the visualizer (under SpecVisualize)                        *)

\* the ids of the entities of a list
Qids(ents) == {ents[i].qid : i \in 1..Len(ents)}

\* the subject and object ids of the triplets of a list
Endpoints(rels) ==
    {rels[i].subject_qid : i \in 1..Len(rels)} \cup {rels[i].object_qid : i \in 1..Len(rels)}

\* the subject-object pairs of the triplets of a list
Pairs(rels) == {<<rels[i].subject_qid, rels[i].object_qid>> : i \in 1..Len(rels)}

\* C23: whatever create_visualization calls came before on the extractor,
\* the graph visualize is invoked on holds the nodes and edges of the current
\* call only: its nodes are the ids of the entities resolved for the current
\* text together with the endpoints of the current triplets, its edges are
\* the subject-object pairs of the current triplets, and its colour entries
\* are those of the current entities and edges.
C23_GraphOfCurrentCallOnly ==
    \A d \in 1..Len(drawn) :
        LET g == drawn[d].graph
            ents == drawn[d].processed
            rels == drawn[d].rels
        IN  /\ DOMAIN g.nodes = Qids(ents) \cup Endpoints(rels)
            /\ DOMAIN g.edges = Pairs(rels)
            /\ DOMAIN g.node_colors = Qids(ents)
            /\ DOMAIN g.edge_colors = Pairs(rels)
            /\ \A n \in Qids(ents) :
                  \E i \in 1..Len(ents) :
                     /\ ents[i].qid = n
                     /\ g.nodes[n].label = ents[i].wikidata_label
                     /\ g.nodes[n].entity_type = ents[i].label
                     /\ g.node_colors[n] = EntityTypeColor(ents[i].label)
            /\ \A n \in DOMAIN g.nodes \ Qids(ents) : DOMAIN g.nodes[n] = {}
            /\ \A i \in 1..Len(rels) :
                  g.edges[<<rels[i].subject_qid, rels[i].object_qid>>].predicate_pid
                      \in {rels[j].predicate_pid : j \in 1..Len(rels)}

\* C23 witness: visualize is invoked a second time, on a graph that holds
\* neither a node nor an edge nor a colour entry that only the first call
\* has added
C23_Witness ==
    /\ Len(drawn) >= 2
    /\ LET old == drawn[1].graph
           new == drawn[2].graph
       IN  /\ DOMAIN old.nodes \ DOMAIN new.nodes # {}
           /\ DOMAIN old.edges \ DOMAIN new.edges # {}
           /\ DOMAIN old.node_colors \ DOMAIN new.node_colors # {}
           /\ DOMAIN new.nodes # {}
           /\ DOMAIN new.edges # {}

====
